---- MODULE Spec2Model ----
(***************************************************************************)
(* A model of the gateway's coordination primitives:                       *)
(*   - proxy.Coalescer          (gateway/proxy/coalesce.go)                *)
(*   - cache.Cache              (gateway/cache/cache.go)                   *)
(*   - ratelimit.Limiter        (gateway/ratelimit/limiter.go)             *)
(*   - circuitbreaker.Breaker   (gateway/circuitbreaker/health.go)         *)
(*   - proxy.ProxyHandler       (gateway/proxy/handler.go), which calls    *)
(*     the four of them                                                    *)
(*   - metrics.Collector        (gateway/ratelimit/limiter.go, its second  *)
(*     half), the counters the handler records in                          *)
(* Every goroutine is a process with a program counter; a step is one      *)
(* atomic operation, one reading of the clock, one read of a field another *)
(* goroutine writes, or a stretch under a mutex that no access of another  *)
(* goroutine can fall into.                                                *)
(* Each component has its own specification; the variables of the other    *)
(* components keep their initial value under it.                           *)
(***************************************************************************)
EXTENDS Integers, Sequences, FiniteSets, TLC

VARIABLES
    now,        \* time.Now().Unix(): wall clock in whole seconds
    conc,       \* how many calls of a component may be in flight at once
    \* ---- proxy.Coalescer
    groups,     \* Coalescer.groups: key -> group id (NoGroup when absent)
    cgroup,     \* the CoalesceGroup objects: id -> [waiters, response, done]
    nextGid,    \* how many CoalesceGroup objects have been stored in the map
    chans,      \* the waiter channels (one per call, buffered 1): caller -> content
    timers,     \* pending time.AfterFunc(c.ttl, ...) callbacks
    cp,         \* the callers of Coalescer.Do: caller -> locals and position
    fnCalls,    \* history: how many times fn was invoked for each group
    \* ---- cache.Cache
    nano,       \* time.Now().UnixNano(): the index of the last instant read
    data,       \* Cache.data: key -> entry (NoEntry when absent)
    totalSize,  \* Cache.totalSize
    nextEid,    \* how many entry objects Set has allocated
    kmu,        \* Cache.mu: the caller holding the write lock (0: free)
    kp,         \* the callers of Get / Set / Clear: caller -> locals and position
    kret,       \* history: the last call that returned and what it returned
    \* ---- ratelimit.Limiter
    refillRate, \* shard.refillRate: shard -> tokens per minute
    lmu,        \* shard.mu: shard -> the caller holding it (0: free)
    clients,    \* shard.tokens: client key -> clientState (NoState when absent)
    lp,         \* the callers of Limiter.Allow: caller -> locals and position
    allows,     \* the number of Allow calls made so far
    lret,       \* history: what the last Allow returned
    \* ---- circuitbreaker.Breaker
    state,           \* Breaker.state
    failureCount,    \* Breaker.failureCount
    successCount,    \* Breaker.successCount
    lastFailureTime, \* Breaker.lastFailureTime
    healthScore,     \* Breaker.health.healthScore
    bp,         \* the callers of the breaker: caller -> position and local
    brOps,      \* the number of breaker calls made so far
    bret,       \* history: the last breaker call that returned
    consec,     \* history: failures recorded in a row
    hsince,     \* history: successes recorded since the breaker went HalfOpen
    swaps,      \* history: compare-and-swaps won since the state was last stored Open
    \* ---- circuitbreaker.Breaker.Execute
    xp,         \* the callers of Breaker.Execute: caller -> position and locals
    xret,       \* history: what the last Execute did and returned
    \* ---- proxy.ProxyHandler
    gcfg,       \* the snapshot config.GetConfig() returns (its index)
    pcfg,       \* ProxyHandler.cfg (the index of the snapshot it points to)
    rq,         \* the handler goroutines: handler -> request, locals, position
    metrics,    \* the metrics.Collector's counters
    upCalls,    \* history: how many times p.client.Do was called
    hret,       \* history: the response written last
    served      \* the number of requests that have arrived

coalVars == <<groups, cgroup, nextGid, chans, timers, cp, fnCalls>>
cacheVars == <<nano, data, totalSize, nextEid, kmu, kp, kret>>
limVars == <<refillRate, lmu, clients, lp, allows, lret>>
brVars == <<state, failureCount, successCount, lastFailureTime, healthScore,
            bp, brOps, bret, consec, hsince, swaps>>
execVars == <<xp, xret>>
pipeVars == <<gcfg, pcfg, rq, metrics, upCalls, hret, served>>
\* The variables of the callers that drive the components.
driverVars == <<execVars, pipeVars>>
\* The clock and the components.
compVars == <<now, conc, coalVars, cacheVars, limVars, brVars>>
vars == <<now, conc, coalVars, cacheVars, limVars, brVars, driverVars>>

----------------------------------------------------------------------------
(* Bounds of the model *)

NCallers == 3       \* goroutines calling Coalescer.Do
MaxGroups == 2      \* CoalesceGroup objects stored in the map over a run
MaxTime == 120      \* the clock stops here
TickStep == 60      \* seconds the clock advances at a time

NCacheProcs == 2    \* goroutines calling the cache
MaxSets == 3        \* entries Set allocates over a run
MaxNano == 4        \* calls start while fewer instants than this were read
Capacity == 2       \* NewCache(capacity, ...), scaled down
MaxSize == 9        \* Cache.maxSize in bytes, scaled down

NLimProcs == 2      \* goroutines calling Limiter.Allow
NumShards == 2      \* NewLimiter(numShards, ...)
DefaultRate == 1    \* NewLimiter(..., defaultRate, ...): tokens per minute
BurstSize == 1      \* NewLimiter(..., burstSize)
LimMaxTime == 3     \* seconds the limiter's clock advances one by one
MaxAllows == 5      \* calls of Limiter.Allow in a run
NBrProcs == 2           \* goroutines calling the breaker
FailureThreshold == 2   \* NewBreaker(failureThreshold, ...)
SuccessThreshold == 2   \* NewBreaker(..., successThreshold, ...)
OpenTimeout == 1        \* NewBreaker(..., timeoutSeconds, ...)
HealthDecayPct == 50    \* NewBreaker(..., healthDecay), in hundredths
MaxBrOps == 6           \* calls of the breaker's methods in a run
BrMaxTime == 2          \* seconds the breaker's clock advances

NHandlers == 2      \* goroutines running ServeHTTP
MaxRequests == 2    \* requests that arrive in a run
RouteTimeout == 1   \* timeout_seconds of the routes
TotalSeconds == 3   \* cfg.Timeouts.TotalSeconds, the http.Client's Timeout
MaxRecords == 4     \* calls of each of the collector's Record methods

(* Program constants *)

CoalesceTTL == 60           \* proxy.NewCoalescer(60 * time.Second)
CoalesceWaitSeconds == 60   \* time.After(60 * time.Second)
WindowSeconds == 60         \* cutoff := now - 60; resetTime := now + 60

Callers == 1..NCallers
CoalKeys == {"GET:/a:", "GET:/b:"}
Gids == 1..MaxGroups
NoGroup == 0

----------------------------------------------------------------------------
(* The clock *)

Tick ==
    /\ now + TickStep <= MaxTime
    /\ now' = now + TickStep

----------------------------------------------------------------------------
(* proxy.Coalescer *)

NilResp == [nil |-> TRUE]       \* a nil *Response
NilErr == "nil"                 \* a nil error
CoalesceTimeoutError == "request coalescing timeout"
UpstreamErr == "upstream error"
ReadErr == "unexpected EOF"     \* io.ReadAll failing on the response's body

\* What fn (forwardRequest) may return: (resp, nil) or (nil, err).
FnOutcomes ==
    {[resp |-> [Body |-> "A", Err |-> NilErr], err |-> NilErr],
     [resp |-> NilResp, err |-> UpstreamErr]}

EmptyChan == [empty |-> TRUE]

NewGroup == [waiters |-> <<>>, response |-> NilResp, done |-> FALSE]

IdleCaller ==
    [pc |-> "idle", key |-> "", g |-> NoGroup, role |-> "none",
     resp |-> NilResp, err |-> NilErr, deadline |-> 0,
     ret |-> [resp |-> NilResp, err |-> NilErr]]

CoalInit ==
    /\ groups = [k \in CoalKeys |-> NoGroup]
    /\ cgroup = [g \in Gids |-> NewGroup]
    /\ nextGid = 0
    /\ chans = [p \in Callers |-> EmptyChan]
    /\ timers = {}
    /\ cp = [p \in Callers |-> IdleCaller]
    /\ fnCalls = [g \in Gids |-> 0]

InFlightCoal == {p \in Callers : cp[p].pc \notin {"idle", "returned", "panicked"}}

\* The locals of a call that has returned are dead: only what it returned is kept.
Returned(c, r) == [c EXCEPT !.pc = "returned", !.ret = r, !.resp = NilResp,
                            !.err = NilErr, !.deadline = 0]

\* c.groups.LoadOrStore(key, &CoalesceGroup{...}): one atomic operation.
LoadOrStore(p, k) ==
    IF groups[k] # NoGroup
    THEN /\ cp' = [cp EXCEPT ![p] = [IdleCaller EXCEPT !.pc = "lock", !.key = k,
                                                      !.g = groups[k]]]
         /\ UNCHANGED <<groups, nextGid>>
    ELSE /\ nextGid < MaxGroups
         /\ nextGid' = nextGid + 1
         /\ groups' = [groups EXCEPT ![k] = nextGid + 1]
         /\ cp' = [cp EXCEPT ![p] = [IdleCaller EXCEPT !.pc = "lock", !.key = k,
                                                      !.g = nextGid + 1]]

\* Do(key, fn), line 38: the call starts.
Do(p, key) ==
    /\ cp[p].pc = "idle"
    /\ Cardinality(InFlightCoal) < conc
    /\ LoadOrStore(p, key)
    /\ UNCHANGED <<brVars, limVars, cacheVars, now, conc, cgroup, chans, timers, fnCalls>>

DoCall(p) == \E k \in CoalKeys : Do(p, k)

\* shouldExecute := len(g.waiters) == 0
ShouldExecuteLoose(g) == Len(cgroup[g].waiters) <= 1
ShouldExecute(g) == Len(cgroup[g].waiters) = 0

\* return g.response, g.response.Err  /  return resp, resp.Err
StoredResultNoErr(resp) == [resp |-> resp, err |-> NilErr]
StoredResult(resp) == [resp |-> resp, err |-> IF resp = NilResp THEN NilErr ELSE resp.Err]

\* line 46: if g.done
AlreadyDoneNever(g) == FALSE
AlreadyDone(g) == cgroup[g].done

\* Do, lines 44-60 and 87-90: the critical section under g.mu; the executor
\* goes on to invoke fn, which touches nothing shared before fn itself runs.
DoEnroll(p) ==
    LET g == cp[p].g IN
    /\ cp[p].pc = "lock"
    /\ IF AlreadyDone(g)
       THEN /\ cp' = [cp EXCEPT ![p] = Returned([@ EXCEPT !.role = "late"],
                                                 StoredResult(cgroup[g].response))]
            /\ UNCHANGED cgroup
            /\ UNCHANGED fnCalls
       ELSE /\ cgroup' = [cgroup EXCEPT ![g].waiters = Append(@, p)]
            /\ IF ShouldExecute(g)
               THEN /\ cp' = [cp EXCEPT ![p].pc = "infn", ![p].role = "executor"]
                    /\ fnCalls' = [fnCalls EXCEPT ![g] = @ + 1]
               ELSE /\ cp' = [cp EXCEPT ![p].pc = "select", ![p].role = "waiter"]
                    /\ UNCHANGED fnCalls
    /\ UNCHANGED <<brVars, limVars, cacheVars, now, conc, groups, nextGid, chans, timers>>

\* Do, line 60: resp, err := fn(), fn returns o.
FnReturn(p, o) ==
    /\ cp[p].pc = "infn"
    /\ cp' = [cp EXCEPT ![p].pc = "notify", ![p].resp = o.resp, ![p].err = o.err]
    /\ UNCHANGED <<brVars, limVars, cacheVars, now, conc, groups, cgroup, nextGid, chans, timers, fnCalls>>

\* fn returns (resp, err).
DoFnReturn(p) == \E o \in FnOutcomes : FnReturn(p, o)

\* fn panics: Do has no recover, the goroutine unwinds out of Do.
DoFnPanic(p) ==
    /\ cp[p].pc = "infn"
    /\ cp' = [cp EXCEPT ![p].pc = "panicked"]
    /\ UNCHANGED <<brVars, limVars, cacheVars, now, conc, groups, cgroup, nextGid, chans, timers, fnCalls>>

\* lines 65-69: if resp == nil { resp = &Response{Err: err} } else { resp.Err = err }
Normalise(resp, err) ==
    IF resp = NilResp THEN [Body |-> "", Err |-> err] ELSE [resp EXCEPT !.Err = err]

\* lines 56, 88 and 74: the channels are made with a buffer of one, so a send
\* goes through while the buffer is empty, receiver or not; on a channel with
\* no buffer it would wait for the receiver.
CanSendUnbuffered(q) == chans[q] = EmptyChan /\ cp[q].pc = "wait"
CanSend(q) == chans[q] = EmptyChan

\* Do, lines 63-77: done, the stored response and the broadcast, under g.mu.
DoNotify(p) ==
    LET g == cp[p].g
        r == Normalise(cp[p].resp, cp[p].err) IN
    /\ cp[p].pc = "notify"
    /\ \A i \in 1..Len(cgroup[g].waiters) : CanSend(cgroup[g].waiters[i])
    /\ cgroup' = [cgroup EXCEPT ![g].done = TRUE, ![g].response = r]
    /\ chans' = [q \in Callers |->
                   IF \E i \in 1..Len(cgroup[g].waiters) : cgroup[g].waiters[i] = q
                   THEN r ELSE chans[q]]
    /\ cp' = [cp EXCEPT ![p].pc = "cleanup", ![p].resp = r]
    /\ UNCHANGED <<brVars, limVars, cacheVars, now, conc, groups, nextGid, timers, fnCalls>>

\* Do, lines 80-84: schedule the removal of the key and return resp, err.
DoSchedule(p) ==
    /\ cp[p].pc = "cleanup"
    /\ timers' = timers \cup {[key |-> cp[p].key, at |-> now + CoalesceTTL]}
    /\ cp' = [cp EXCEPT ![p] = Returned(@, [resp |-> cp[p].resp, err |-> cp[p].err])]
    /\ UNCHANGED <<brVars, limVars, cacheVars, now, conc, groups, cgroup, nextGid, chans, fnCalls>>

\* Do, line 93: the select starts; time.After(60 * time.Second) is armed.
DoSelect(p) ==
    /\ cp[p].pc = "select"
    /\ cp' = [cp EXCEPT ![p].pc = "wait", ![p].deadline = now + CoalesceWaitSeconds]
    /\ UNCHANGED <<brVars, limVars, cacheVars, now, conc, groups, cgroup, nextGid, chans, timers, fnCalls>>

\* Do, lines 94-95: case resp := <-waitChan
DoReceive(p) ==
    /\ cp[p].pc = "wait"
    /\ chans[p] # EmptyChan
    /\ cp' = [cp EXCEPT ![p] = Returned(@, StoredResult(chans[p]))]
    /\ UNCHANGED <<brVars, limVars, cacheVars, now, conc, groups, cgroup, nextGid, chans, timers, fnCalls>>

\* Do, lines 96-98: case <-time.After(60 * time.Second)
DoTimeout(p) ==
    /\ cp[p].pc = "wait"
    /\ now >= cp[p].deadline
    /\ cp' = [cp EXCEPT ![p] = Returned(@, [resp |-> NilResp,
                                            err |-> CoalesceTimeoutError])]
    /\ UNCHANGED <<brVars, limVars, cacheVars, now, conc, groups, cgroup, nextGid, chans, timers, fnCalls>>

\* lines 80-82: the AfterFunc callback, c.groups.Delete(key).
Reap ==
    /\ \E t \in timers :
         /\ now >= t.at
         /\ timers' = timers \ {t}
         /\ groups' = [groups EXCEPT ![t.key] = NoGroup]
    /\ UNCHANGED <<brVars, limVars, cacheVars, now, conc, cgroup, nextGid, chans, cp, fnCalls>>

CoalTick == Tick /\ UNCHANGED <<conc, coalVars, cacheVars, limVars, brVars>>

CoalNext ==
    \/ \E p \in Callers : DoCall(p) /\ UNCHANGED driverVars
    \/ \E p \in Callers : DoEnroll(p) /\ UNCHANGED driverVars
    \/ \E p \in Callers : DoFnReturn(p) /\ UNCHANGED driverVars
    \/ \E p \in Callers : DoFnPanic(p) /\ UNCHANGED driverVars
    \/ \E p \in Callers : DoNotify(p) /\ UNCHANGED driverVars
    \/ \E p \in Callers : DoSchedule(p) /\ UNCHANGED driverVars
    \/ \E p \in Callers : DoSelect(p) /\ UNCHANGED driverVars
    \/ \E p \in Callers : DoReceive(p) /\ UNCHANGED driverVars
    \/ \E p \in Callers : DoTimeout(p) /\ UNCHANGED driverVars
    \/ Reap /\ UNCHANGED driverVars
    \/ CoalTick /\ UNCHANGED driverVars

\* The clock of the runs in which every call is followed to its end: it moves
\* for as long as a waiter's time.After or a clean-up timer is pending, past
\* MaxTime if need be.
LiveTick ==
    /\ \/ \E p \in Callers : cp[p].pc = "wait" /\ now < cp[p].deadline
       \/ \E t \in timers : now < t.at
    /\ now' = now + TickStep
    /\ UNCHANGED <<conc, coalVars, cacheVars, limVars, brVars>>

\* The steps a caller takes by itself; fn's return or panic is not among them.
OwnStep(p) ==
    \/ DoEnroll(p) \/ DoNotify(p) \/ DoSchedule(p)
    \/ DoSelect(p) \/ DoReceive(p) \/ DoTimeout(p)

\* The calls followed to their end are all on one key: groups of different
\* keys share nothing.
LiveKey == "GET:/a:"

CoalLiveNext ==
    \/ \E p \in Callers : Do(p, LiveKey) /\ UNCHANGED driverVars
    \/ \E p \in Callers : DoEnroll(p) /\ UNCHANGED driverVars
    \/ \E p \in Callers : DoFnReturn(p) /\ UNCHANGED driverVars
    \/ \E p \in Callers : DoFnPanic(p) /\ UNCHANGED driverVars
    \/ \E p \in Callers : DoNotify(p) /\ UNCHANGED driverVars
    \/ \E p \in Callers : DoSchedule(p) /\ UNCHANGED driverVars
    \/ \E p \in Callers : DoSelect(p) /\ UNCHANGED driverVars
    \/ \E p \in Callers : DoReceive(p) /\ UNCHANGED driverVars
    \/ \E p \in Callers : DoTimeout(p) /\ UNCHANGED driverVars
    \/ Reap /\ UNCHANGED driverVars
    \/ LiveTick /\ UNCHANGED driverVars

\* Every goroutine that can take a step is scheduled in the end, and time
\* passes; nothing is assumed about fn.
CoalFairness ==
    /\ \A p \in Callers : WF_vars(OwnStep(p) /\ UNCHANGED driverVars)
    /\ WF_vars(LiveTick /\ UNCHANGED driverVars)

----------------------------------------------------------------------------
(* cache.Cache *)

CacheProcs == 1..NCacheProcs
CacheKeys == {"a", "b", "c"}
NoEntry == [none |-> TRUE]
NoResponse == [nil |-> TRUE]

\* The responses callers store: status, headers (name and values), body.
Responses ==
    {[StatusCode |-> 200, Headers |-> <<>>, Body |-> "xx", TTL |-> 0],
     [StatusCode |-> 200, Headers |-> <<[name |-> "T", vals |-> <<"abc">>]>>,
      Body |-> "xx", TTL |-> 0]}

\* The ttlSeconds callers pass; the handler passes cfg.Cache.TTLSeconds.
TTLs == {0, 60}

RECURSIVE SumLen(_)
SumLen(strs) == IF strs = <<>> THEN 0 ELSE Len(Head(strs)) + SumLen(Tail(strs))

RECURSIVE HeaderSize(_)
HeaderSize(hs) ==
    IF hs = <<>> THEN 0
    ELSE Len(Head(hs).name) + SumLen(Head(hs).vals) + HeaderSize(Tail(hs))

\* Set, lines 83-89: len(key) + len(body) + the header names and values.
EntrySize(key, response) == Len(key) + Len(response.Body) + HeaderSize(response.Headers)

\* A caller between calls.  inMap: the entry object a Get holds is still the
\* one the map has under the key; at: the second a Get read for its TTL test;
\* t: the instant read last (Get, line 64; evict, line 116); was: what the
\* map and totalSize were when a Set took the lock (history).
\* An entry also carries, as history, what Set was given: the response (arg),
\* the second it read (setAt) and ttlSeconds (ttl).
IdleCacheProc ==
    [pc |-> "idle", key |-> "", e |-> NoEntry, inMap |-> FALSE, at |-> 0, t |-> 0,
     was |-> NoEntry]

\* History: the call that returned last: what it was given or found (arg: the
\* response passed to Set, the entry Get looked up), what it returned, and the
\* second at which it read the clock.
Return(op, key, arg, hit, ret, at) ==
    [op |-> op, key |-> key, arg |-> arg, hit |-> hit, ret |-> ret, at |-> at]

NoReturn == Return("none", "", NoEntry, FALSE, NoResponse, 0)

CacheInit ==
    /\ nano = 0
    /\ data = [k \in CacheKeys |-> NoEntry]
    /\ totalSize = 0
    /\ nextEid = 0
    /\ kmu = 0
    /\ kp = [p \in CacheProcs |-> IdleCacheProc]
    /\ kret = NoReturn

InFlightCache == {p \in CacheProcs : kp[p].pc # "idle"}

CanStart(p) ==
    /\ kp[p].pc = "idle"
    /\ Cardinality(InFlightCache) < conc

\* The Gets in flight whose entry object leaves the map when the keys ks lose
\* or change their entry learn nothing of it: only the model records it.
Unlink(procs, ks) ==
    [q \in CacheProcs |->
        IF procs[q].pc # "idle" /\ procs[q].key \in ks
        THEN [procs[q] EXCEPT !.inMap = FALSE] ELSE procs[q]]

\* Get(key), lines 46-52: the lookup under the read lock; a missing key is a
\* miss.  A call that may go on to read the clock's instants starts while
\* fewer than MaxNano of them have been read.
Get(p, k) ==
    /\ CanStart(p)
    /\ kmu = 0
    /\ IF data[k] = NoEntry
       THEN /\ kret' = Return("get", k, NoEntry, FALSE, NoResponse, now)
            /\ UNCHANGED kp
       ELSE /\ nano < MaxNano
            /\ kp' = [kp EXCEPT ![p] = [IdleCacheProc EXCEPT
                                          !.pc = "check", !.key = k,
                                          !.e = [data[k] EXCEPT !.lastUsed = 0],
                                          !.inMap = TRUE]]
            /\ UNCHANGED kret
    /\ UNCHANGED <<brVars, limVars, now, conc, coalVars, nano, data, totalSize,
                   nextEid, kmu>>

GetLookup(p) == \E k \in CacheKeys : Get(p, k)

\* Get, line 55: entry.response.TTL < time.Now().Unix()
ExpiredAtDeadline(e, t) == e.response.TTL <= t
Expired(e, t) == e.response.TTL < t

\* Get, line 55: the entry is expired at the second read here; no lock is held.
GetExpired(p) ==
    /\ kp[p].pc = "check"
    /\ Expired(kp[p].e, now)
    /\ kp' = [kp EXCEPT ![p].pc = "expire", ![p].at = now]
    /\ UNCHANGED <<brVars, limVars, now, conc, coalVars, nano, data, totalSize,
                   nextEid, kmu, kret>>

\* Get, lines 56-60: the expired entry is removed under the write lock:
\* delete(c.data, key); c.totalSize -= entry.size; a miss.
GetExpire(p) ==
    /\ kp[p].pc = "expire"
    /\ kmu = 0
    /\ data' = [data EXCEPT ![kp[p].key] = NoEntry]
    /\ totalSize' = totalSize - kp[p].e.size
    /\ kp' = [Unlink(kp, {kp[p].key}) EXCEPT ![p] = IdleCacheProc]
    /\ kret' = Return("get", kp[p].key, kp[p].e, FALSE, NoResponse, kp[p].at)
    /\ UNCHANGED <<brVars, limVars, now, conc, coalVars, nano, nextEid, kmu>>

\* time.Now().UnixNano(): every read of the clock is a later instant.
ClockRead == nano + 1

\* Get, line 55: the entry is not expired at the second read here; no lock is
\* held, and none is taken before line 64.
GetFresh(p) ==
    /\ kp[p].pc = "check"
    /\ ~Expired(kp[p].e, now)
    /\ kp' = [kp EXCEPT ![p].pc = "touch", ![p].at = now]
    /\ UNCHANGED <<brVars, limVars, now, conc, coalVars, nano, data, totalSize,
                   nextEid, kmu, kret>>

\* Get, line 64: time.Now().UnixNano(), the argument of the store, is
\* evaluated before the store runs.
GetClock(p) ==
    /\ kp[p].pc = "touch"
    /\ nano' = ClockRead
    /\ kp' = [kp EXCEPT ![p].pc = "store", ![p].t = ClockRead]
    /\ UNCHANGED <<brVars, limVars, now, conc, coalVars, data, totalSize,
                   nextEid, kmu, kret>>

\* Get, lines 64-66: atomic.StoreInt64(&entry.lastUsed, ...) of the instant
\* read, on the entry object the lookup found (the map's entry changes only
\* if that object is still in the map), with no lock held, whoever holds
\* c.mu; a hit, whatever has happened since the TTL test.
GetTouch(p) ==
    LET k == kp[p].key IN
    /\ kp[p].pc = "store"
    /\ data' = IF kp[p].inMap THEN [data EXCEPT ![k].lastUsed = kp[p].t] ELSE data
    /\ kp' = [kp EXCEPT ![p] = IdleCacheProc]
    /\ kret' = Return("get", k, kp[p].e, TRUE, kp[p].e.response, kp[p].at)
    /\ UNCHANGED <<brVars, limVars, now, conc, coalVars, nano, totalSize, nextEid, kmu>>

\* Set, lines 75-76: response.TTL = now.Unix() + int64(ttlSeconds)
DeadlineNoClock(t, ttlSeconds) == ttlSeconds
Deadline(t, ttlSeconds) == t + ttlSeconds

\* Set(key, response, ttlSeconds), lines 70-89: ttlSeconds <= 0 returns at
\* once; otherwise the entry is built from the clock read at line 75, before
\* the lock is taken.
Set(p, k, r, ttl) ==
    /\ CanStart(p)
    /\ IF ttl <= 0
       THEN /\ kret' = Return("setnoop", k, r, FALSE, NoResponse, now)
            /\ UNCHANGED <<kp, nextEid, nano>>
       ELSE /\ nextEid < MaxSets
            /\ nano < MaxNano
            /\ nextEid' = nextEid + 1
            /\ nano' = ClockRead
            /\ kp' = [kp EXCEPT ![p] = [IdleCacheProc EXCEPT
                        !.pc = "setlock", !.key = k,
                        !.e = [response |-> [r EXCEPT !.TTL = Deadline(now, ttl)],
                               lastUsed |-> ClockRead,
                               size |-> EntrySize(k, r),
                               arg |-> r, setAt |-> now, ttl |-> ttl]]]
            /\ UNCHANGED kret
    /\ UNCHANGED <<brVars, limVars, now, conc, coalVars, data, totalSize, kmu>>

SetBegin(p) == \E k \in CacheKeys, r \in Responses, ttl \in TTLs : Set(p, k, r, ttl)

Present(d) == {k \in CacheKeys : d[k] # NoEntry}

\* evict, lines 115-123: the keys the scan may end on: lastUsed below
\* oldestTime, the clock read at line 116, and below every other entry's
\* (ties: the map's iteration order); the scan loads each entry's lastUsed once.
Newest(d, oldestTime) ==
    {k \in Present(d) : \A j \in Present(d) : d[k].lastUsed >= d[j].lastUsed}
Oldest(d, oldestTime) ==
    {k \in Present(d) :
        /\ d[k].lastUsed < oldestTime
        /\ \A j \in Present(d) : d[k].lastUsed <= d[j].lastUsed}

\* evict, lines 118-130: the states the scan and the delete may leave, as
\* [data, totalSize]; nothing is removed when no entry's lastUsed is below
\* oldestTime.
Evict(d, total, oldestTime) ==
    IF Oldest(d, oldestTime) = {} THEN {[data |-> d, totalSize |-> total]}
    ELSE {[data |-> [d EXCEPT ![k] = NoEntry], totalSize |-> total - d[k].size] :
            k \in Oldest(d, oldestTime)}

\* Set, lines 94-97: subtract the size of the entry the key already has.
AfterReplace(k) == IF data[k] # NoEntry THEN totalSize - data[k].size ELSE totalSize

\* Set, line 100: if c.totalSize + entry.size > c.maxSize
OverSize(total, e) == total + e.size > MaxSize

\* Set, line 105: if len(c.data) >= c.capacity && entry.size+c.totalSize > c.maxSize
OverCapacity(d, total, e) ==
    Cardinality(Present(d)) >= Capacity /\ e.size + total > MaxSize

\* Set goes into evict (lines 101, 106) with the map d and totalSize total,
\* holding c.mu.
SetEvict(p, pc, procs, d, total) ==
    /\ data' = d
    /\ totalSize' = total
    /\ kmu' = p
    /\ kp' = [Unlink(procs, Present(data) \ Present(d)) EXCEPT ![p].pc = pc]
    /\ UNCHANGED kret

\* Set, lines 109-111: c.data[key] = entry; c.totalSize += entry.size; the
\* lock is released and Set returns.
SetStore(p, d, total) ==
    LET k == kp[p].key
        e == kp[p].e IN
    /\ data' = [d EXCEPT ![k] = e]
    /\ totalSize' = total + e.size
    /\ kmu' = 0
    /\ kp' = [Unlink(kp, {k} \cup (Present(data) \ Present(d)))
                EXCEPT ![p] = IdleCacheProc]
    /\ kret' = Return("set", k, e.arg, FALSE, NoResponse, e.setAt)

\* Set, lines 91-111: c.mu is taken and held to the end; the size of the
\* entry the key has is subtracted (the entry stays in the map until line
\* 109), then the tests of lines 100 and 105.
SetLocked(p) ==
    LET k == kp[p].key
        e == kp[p].e
        total == AfterReplace(k)
        held == [kp EXCEPT ![p].was = [data |-> data, totalSize |-> totalSize]] IN
    /\ kp[p].pc = "setlock"
    /\ kmu = 0
    /\ IF OverSize(total, e)
       THEN SetEvict(p, "evict1", held, data, total)
       ELSE IF OverCapacity(data, total, e)
       THEN SetEvict(p, "evict2", held, data, total)
       ELSE SetStore(p, data, total)
    /\ UNCHANGED <<brVars, limVars, now, conc, coalVars, nano, nextEid>>

\* evict, line 116: oldestTime := time.Now().UnixNano()
EvictClock(p) ==
    /\ kp[p].pc \in {"evict1", "evict2"}
    /\ nano' = ClockRead
    /\ kp' = [kp EXCEPT ![p].pc = IF kp[p].pc = "evict1" THEN "scan1" ELSE "scan2",
                        ![p].t = ClockRead]
    /\ UNCHANGED <<brVars, limVars, now, conc, coalVars, data, totalSize,
                   nextEid, kmu, kret>>

\* evict, lines 118-130: the scan of the map and the delete, the lastUsed of
\* the entries being what the Gets under way have stored by now; then Set
\* goes on to line 105 (after the first evict) or to line 109.
EvictScan(p) ==
    /\ kp[p].pc \in {"scan1", "scan2"}
    /\ \E s \in Evict(data, totalSize, kp[p].t) :
         IF kp[p].pc = "scan1" /\ OverCapacity(s.data, s.totalSize, kp[p].e)
         THEN SetEvict(p, "evict2", kp, s.data, s.totalSize)
         ELSE SetStore(p, s.data, s.totalSize)
    /\ UNCHANGED <<brVars, limVars, now, conc, coalVars, nano, nextEid>>

\* Clear, lines 134-139.
Clear(p) ==
    /\ CanStart(p)
    /\ kmu = 0
    /\ data' = [k \in CacheKeys |-> NoEntry]
    /\ totalSize' = 0
    /\ kp' = Unlink(kp, CacheKeys)
    /\ kret' = Return("clear", "", NoEntry, FALSE, NoResponse, now)
    /\ UNCHANGED <<brVars, limVars, now, conc, coalVars, nano, nextEid, kmu>>

\* The clock moves to a later second.
CacheTick == Tick /\ UNCHANGED <<conc, coalVars, cacheVars, limVars, brVars>>

CacheNext ==
    \/ \E p \in CacheProcs : GetLookup(p) /\ UNCHANGED driverVars
    \/ \E p \in CacheProcs : GetExpired(p) /\ UNCHANGED driverVars
    \/ \E p \in CacheProcs : GetExpire(p) /\ UNCHANGED driverVars
    \/ \E p \in CacheProcs : GetFresh(p) /\ UNCHANGED driverVars
    \/ \E p \in CacheProcs : GetClock(p) /\ UNCHANGED driverVars
    \/ \E p \in CacheProcs : GetTouch(p) /\ UNCHANGED driverVars
    \/ \E p \in CacheProcs : SetBegin(p) /\ UNCHANGED driverVars
    \/ \E p \in CacheProcs : SetLocked(p) /\ UNCHANGED driverVars
    \/ \E p \in CacheProcs : EvictClock(p) /\ UNCHANGED driverVars
    \/ \E p \in CacheProcs : EvictScan(p) /\ UNCHANGED driverVars
    \/ \E p \in CacheProcs : Clear(p) /\ UNCHANGED driverVars
    \/ CacheTick /\ UNCHANGED driverVars

\* Overlapping Gets and Sets of one key.
RaceKey == "a"

CacheRaceNext ==
    \/ \E p \in CacheProcs : Get(p, RaceKey) /\ UNCHANGED driverVars
    \/ \E p \in CacheProcs : GetExpired(p) /\ UNCHANGED driverVars
    \/ \E p \in CacheProcs : GetExpire(p) /\ UNCHANGED driverVars
    \/ \E p \in CacheProcs : GetFresh(p) /\ UNCHANGED driverVars
    \/ \E p \in CacheProcs : GetClock(p) /\ UNCHANGED driverVars
    \/ \E p \in CacheProcs : GetTouch(p) /\ UNCHANGED driverVars
    \/ \E p \in CacheProcs : \E r \in Responses : \E ttl \in TTLs :
          Set(p, RaceKey, r, ttl) /\ UNCHANGED driverVars
    \/ \E p \in CacheProcs : SetLocked(p) /\ UNCHANGED driverVars
    \/ \E p \in CacheProcs : EvictClock(p) /\ UNCHANGED driverVars
    \/ \E p \in CacheProcs : EvictScan(p) /\ UNCHANGED driverVars
    \/ CacheTick /\ UNCHANGED driverVars

----------------------------------------------------------------------------
(* uint64 and float64 arithmetic *)

\* Natural numbers beyond the range of the checker's integers are sequences
\* of 16-bit limbs, the least significant first, with no zero limb at the top.
LimbBits == 16
LimbBase == 65536

RECURSIVE Pow2(_)
Pow2(n) == IF n = 0 THEN 1 ELSE 2 * Pow2(n - 1)

RECURSIVE BitsOf(_)
BitsOf(n) == IF n = 0 THEN 0 ELSE 1 + BitsOf(n \div 2)

RECURSIVE Trim(_)
Trim(a) ==
    IF a # <<>> /\ a[Len(a)] = 0 THEN Trim(SubSeq(a, 1, Len(a) - 1)) ELSE a

RECURSIVE BigOf(_)
BigOf(n) == IF n = 0 THEN <<>> ELSE <<n % LimbBase>> \o BigOf(n \div LimbBase)

RECURSIVE IntOf(_)
IntOf(a) == IF a = <<>> THEN 0 ELSE Head(a) + LimbBase * IntOf(Tail(a))

Limb(a, i) == IF i <= Len(a) THEN a[i] ELSE 0

RECURSIVE BigAddFrom(_, _, _, _)
BigAddFrom(a, b, i, carry) ==
    IF i > Len(a) /\ i > Len(b) THEN BigOf(carry)
    ELSE LET s == Limb(a, i) + Limb(b, i) + carry IN
         <<s % LimbBase>> \o BigAddFrom(a, b, i + 1, s \div LimbBase)

BigAdd(a, b) == BigAddFrom(a, b, 1, 0)

\* a - b for a >= b
RECURSIVE BigSubFrom(_, _, _, _)
BigSubFrom(a, b, i, borrow) ==
    IF i > Len(a) THEN <<>>
    ELSE LET d == Limb(a, i) - Limb(b, i) - borrow IN
         <<(d + LimbBase) % LimbBase>>
            \o BigSubFrom(a, b, i + 1, IF d < 0 THEN 1 ELSE 0)

BigSub(a, b) == Trim(BigSubFrom(a, b, 1, 0))

\* a * k for 0 <= k < 2^15
RECURSIVE BigMulFrom(_, _, _, _)
BigMulFrom(a, k, i, carry) ==
    IF i > Len(a) THEN BigOf(carry)
    ELSE LET s == a[i] * k + carry IN
         <<s % LimbBase>> \o BigMulFrom(a, k, i + 1, s \div LimbBase)

BigMul(a, k) == Trim(BigMulFrom(a, k, 1, 0))

\* a divided by d, 0 < d < 2^15: the quotient q and the remainder r
RECURSIVE BigDivFrom(_, _, _, _)
BigDivFrom(a, d, i, rem) ==
    IF i = 0 THEN [q |-> <<>>, r |-> rem]
    ELSE LET cur == rem * LimbBase + a[i]
             low == BigDivFrom(a, d, i - 1, cur % d) IN
         [q |-> low.q \o <<cur \div d>>, r |-> low.r]

BigDiv(a, d) ==
    LET x == BigDivFrom(a, d, Len(a), 0) IN [q |-> Trim(x.q), r |-> x.r]

RECURSIVE BigLessFrom(_, _, _)
BigLessFrom(a, b, i) ==
    IF i = 0 THEN FALSE
    ELSE IF a[i] # b[i] THEN a[i] < b[i]
    ELSE BigLessFrom(a, b, i - 1)

BigLess(a, b) ==
    IF Len(a) # Len(b) THEN Len(a) < Len(b) ELSE BigLessFrom(a, b, Len(a))

BitLen(a) == IF a = <<>> THEN 0 ELSE LimbBits * (Len(a) - 1) + BitsOf(a[Len(a)])

ShiftLeft(a, k) ==
    IF a = <<>> THEN <<>>
    ELSE [i \in 1..(k \div LimbBits) |-> 0] \o BigMul(a, Pow2(k % LimbBits))

ShiftRight(a, k) ==
    IF k \div LimbBits >= Len(a) THEN <<>>
    ELSE BigDiv(SubSeq(a, k \div LimbBits + 1, Len(a)), Pow2(k % LimbBits)).q

BitAt(a, i) == (Limb(a, i \div LimbBits + 1) \div Pow2(i % LimbBits)) % 2

\* some bit below bit k is set
LowBits(a, k) ==
    \E i \in 1..Len(a) :
       /\ a[i] # 0
       /\ \/ i <= k \div LimbBits
          \/ i = k \div LimbBits + 1 /\ a[i] % Pow2(k % LimbBits) # 0

\* A float64 that is not negative: m * 2^e with 2^52 <= m < 2^53, or zero.
MantBits == 53

FZero == [m |-> <<>>, e |-> 0]

\* IEEE 754 round-to-nearest-even of n * 2^e; sticky: the exact value lies
\* above n * 2^e by less than 2^e.
RoundFloat(n, e, sticky) ==
    LET len == BitLen(n)
        s == len - MantBits IN
    IF len = 0 THEN FZero
    ELSE IF s <= 0 THEN [m |-> ShiftLeft(n, -s), e |-> e + s]
    ELSE LET m0 == ShiftRight(n, s)
             up == /\ BitAt(n, s - 1) = 1
                   /\ (sticky \/ LowBits(n, s - 1) \/ BitAt(n, s) = 1)
             m1 == IF up THEN BigAdd(m0, <<1>>) ELSE m0 IN
         IF BitLen(m1) > MantBits THEN [m |-> ShiftRight(m1, 1), e |-> e + s + 1]
         ELSE [m |-> m1, e |-> e + s]

\* float64(n) for an integer 0 <= n < 2^31
Float(n) == RoundFloat(BigOf(n), 0, FALSE)

MinInt(a, b) == IF a < b THEN a ELSE b

\* The mantissa of x as a multiple of 2^e, e <= x.e
Scaled(x, e) == IF x = FZero THEN <<>> ELSE ShiftLeft(x.m, x.e - e)

CommonExp(x, y) ==
    IF x = FZero THEN y.e ELSE IF y = FZero THEN x.e ELSE MinInt(x.e, y.e)

FLess(x, y) == BigLess(Scaled(x, CommonExp(x, y)), Scaled(y, CommonExp(x, y)))

FAdd(x, y) ==
    RoundFloat(BigAdd(Scaled(x, CommonExp(x, y)), Scaled(y, CommonExp(x, y))),
               CommonExp(x, y), FALSE)

\* x - y for x >= y
FSub(x, y) ==
    RoundFloat(BigSub(Scaled(x, CommonExp(x, y)), Scaled(y, CommonExp(x, y))),
               CommonExp(x, y), FALSE)

\* x * float64(k) and x / float64(d) for integers 0 <= k, 0 < d below 2^15
FMul(x, k) == IF x = FZero THEN FZero ELSE RoundFloat(BigMul(x.m, k), x.e, FALSE)

FDiv(x, d) ==
    IF x = FZero THEN FZero
    ELSE LET r == BigDiv(ShiftLeft(x.m, 2 * LimbBits), d) IN
         RoundFloat(r.q, x.e - 2 * LimbBits, r.r # 0)

\* int64(x): the fraction is dropped
Int64(x) ==
    IF x = FZero THEN 0
    ELSE IF x.e >= 0 THEN IntOf(ShiftLeft(x.m, x.e))
    ELSE IntOf(ShiftRight(x.m, -x.e))

----------------------------------------------------------------------------
(* ratelimit.Limiter *)

LimProcs == 1..NLimProcs

\* Client keys (r.RemoteAddr), as their code points: "1", "3" and
\* "10.0.0.7:51234".
LongClient == <<49, 48, 46, 48, 46, 48, 46, 55, 58, 53, 49, 50, 51, 52>>

Clients == {<<49>>, <<51>>, LongClient}

\* route.RateLimit of the routes a client asks for: 0 means the default rate.
\* Only client "3" uses a route with a rate of its own.
RouteRates(k) == IF k = <<51>> THEN {0, 120} ELSE {0}

\* The rate configured for a request: the route's, or the default.
RateFor(c) == IF c > 0 THEN c ELSE DefaultRate

NoState == [none |-> TRUE]

\* A uint64 keeps the low 64 bits.
Uint64Limbs == 4

Wrap64(a) == Trim(SubSeq(a, 1, MinInt(Len(a), Uint64Limbs)))

\* getShardIdx, lines 103-106: hash = hash*31 + uint64(c) over the key's code
\* points, in uint64: the hash after the first n of them.
RECURSIVE Hash31(_, _)
Hash31(key, n) ==
    IF n = 0 THEN <<>>
    ELSE LET hash == Hash31(key, n - 1) IN
         IF Len(hash) > Uint64Limbs THEN <<>>
         ELSE Wrap64(BigAdd(BigMul(hash, 31), BigOf(key[n])))

\* int(hash): from 2^63 on the value is hash - 2^64, a negative number.
IsNegative64(u) == Len(u) = Uint64Limbs /\ u[Uint64Limbs] >= LimbBase \div 2

\* 2^64 - u modulo n, for u >= 2^63
NegatedMod(u, n) ==
    (BigDiv(<<0, 0, 0, 0, 1>>, n).r - BigDiv(u, n).r + n) % n

\* getShardIdx, line 107: int(hash) % l.numShards; Go's remainder has the sign
\* of the dividend, so that the index of a negative int(hash) is zero or
\* negative.
ShardIdxOf(u, n) == IF IsNegative64(u) THEN 0 - NegatedMod(u, n) ELSE BigDiv(u, n).r

getShardIdx(key) == ShardIdxOf(Hash31(key, Len(key)), NumShards)

\* Allow, line 42: shardIdx := l.getShardIdx(clientKey), for the keys in use.
shardIdx == [k \in Clients |-> getShardIdx(k)]

Shards == 0..(NumShards - 1)

\* Tokens are float64 values; 60.0 is the divisor and the factor of lines 77
\* and 96.
Sixty == 60

\* 1.0 (lines 83, 84 and 95) and float64(shard.burstSize) (lines 57 and 78)
One == Float(1)
Burst == Float(BurstSize)

IdleLimProc == [pc |-> "idle", key |-> <<>>, customRate |-> 0, t |-> 0]

NoAllowReturn == [allowed |-> FALSE, remaining |-> 0, resetTime |-> 0, panic |-> FALSE]

\* Allow, line 43: l.shards[shardIdx] with an index out of range; the call
\* panics.
OutOfRange(k) == shardIdx[k] \notin Shards

AllowPanic == [allowed |-> FALSE, remaining |-> 0, resetTime |-> 0, panic |-> TRUE]

LimInit ==
    /\ lret = NoAllowReturn
    /\ refillRate = [s \in Shards |-> DefaultRate]
    /\ lmu = [s \in Shards |-> 0]
    /\ clients = [k \in Clients |-> NoState]
    /\ lp = [p \in LimProcs |-> IdleLimProc]
    /\ allows = 0

InFlightLim == {p \in LimProcs : lp[p].pc # "idle"}

\* Allow(clientKey, customRate), lines 41-47: the shard is chosen, and the
\* call panics on an index that is not one of the shards; a nonzero customRate
\* is written to the shard's refillRate, before the shard lock is taken.
LimiterAllow(p, k, c) ==
    /\ lp[p].pc = "idle"
    /\ Cardinality(InFlightLim) < conc
    /\ \A q \in LimProcs : q < p => lp[q].pc # "idle"
    /\ allows < MaxAllows
    /\ allows' = allows + 1
    /\ IF OutOfRange(k)
       THEN /\ lret' = AllowPanic
            /\ UNCHANGED <<lp, refillRate>>
       ELSE /\ lp' = [lp EXCEPT ![p] = [pc |-> "lock", key |-> k, customRate |-> c,
                                        t |-> 0]]
            /\ refillRate' = IF c > 0 THEN [refillRate EXCEPT ![shardIdx[k]] = c]
                             ELSE refillRate
            /\ UNCHANGED lret
    /\ UNCHANGED <<brVars, now, conc, coalVars, cacheVars, lmu, clients>>

AllowStart(p) == \E k \in Clients : \E c \in RouteRates(k) : LimiterAllow(p, k, c)

\* shard.mu.Lock()
LockFreeAlways(s) == TRUE
LockFree(s) == lmu[s] = 0

\* lines 64-72: keep the window timestamps with ts >= now - 60.
RECURSIVE Prune(_, _)
Prune(window, cutoff) ==
    IF window = <<>> THEN <<>>
    ELSE IF Head(window) >= cutoff THEN <<Head(window)>> \o Prune(Tail(window), cutoff)
         ELSE Prune(Tail(window), cutoff)

\* min, lines 110-115
Min(a, b) == IF FLess(a, b) THEN a ELSE b

\* line 77: float64(shard.refillRate) * float64(timeElapsed) / 60.0
TokensToAdd(rate, timeElapsed) == FDiv(Float(rate * timeElapsed), Sixty)

\* lines 74-80: tokens + tokensToAdd, capped at burstSize.
RefillUncapped(tok, rate, timeElapsed) == FAdd(tok, TokensToAdd(rate, timeElapsed))
Refill(tok, rate, timeElapsed) ==
    Min(FAdd(tok, TokensToAdd(rate, timeElapsed)), Burst)

\* Allow, lines 49-72: the shard lock is taken; the state is read or created
\* with tokens = burstSize, at the second the clock shows, and the window is
\* pruned.
AllowLock(p) ==
    LET k == lp[p].key
        s == shardIdx[k]
        st == IF clients[k] = NoState
              THEN [tokens |-> Burst, lastRefill |-> now, window |-> <<>>]
              ELSE clients[k] IN
    /\ lp[p].pc = "lock"
    /\ LockFree(s)
    /\ lmu' = [lmu EXCEPT ![s] = p]
    /\ clients' = [clients EXCEPT ![k] =
                     [st EXCEPT !.window = Prune(st.window, now - WindowSeconds)]]
    /\ lp' = [lp EXCEPT ![p].pc = "refill", ![p].t = now]
    /\ UNCHANGED <<brVars, now, conc, coalVars, cacheVars, refillRate, allows, lret>>

\* Allow, lines 75-80: after a second or more the tokens are refilled at the
\* rate shard.refillRate holds now (callers write it without the lock).
AllowRefill(p) ==
    LET k == lp[p].key
        s == shardIdx[k]
        st == clients[k]
        timeElapsed == lp[p].t - st.lastRefill IN
    /\ lp[p].pc = "refill"
    /\ clients' = IF timeElapsed > 0
                  THEN [clients EXCEPT
                          ![k].tokens = Refill(st.tokens, refillRate[s], timeElapsed),
                          ![k].lastRefill = lp[p].t]
                  ELSE clients
    /\ lp' = [lp EXCEPT ![p].pc = "decide"]
    /\ UNCHANGED <<brVars, now, conc, coalVars, cacheVars, refillRate, lmu, allows, lret>>

\* Allow, line 83: if state.tokens >= 1.0
HasToken(st) == ~FLess(st.tokens, One)

\* Allow, lines 83-90: with a token in the bucket, a token is deducted, now is
\* appended to the window and (true, int64(tokens), now + 60) is returned; the
\* deferred Unlock runs.
AllowAdmit(p) ==
    LET k == lp[p].key
        s == shardIdx[k]
        tok == FSub(clients[k].tokens, One) IN
    /\ lp[p].pc = "decide"
    /\ HasToken(clients[k])
    /\ clients' = [clients EXCEPT ![k].tokens = tok,
                                  ![k].window = Append(@, lp[p].t)]
    /\ lmu' = [lmu EXCEPT ![s] = IF @ = p THEN 0 ELSE @]
    /\ lret' = [allowed |-> TRUE, remaining |-> Int64(tok),
                resetTime |-> lp[p].t + WindowSeconds, panic |-> FALSE]
    /\ lp' = [lp EXCEPT ![p] = IdleLimProc]
    /\ UNCHANGED <<brVars, now, conc, coalVars, cacheVars, refillRate, allows>>

\* Allow, lines 95-96: deficit := 1.0 - state.tokens, then
\* int64((deficit / float64(shard.refillRate)) * 60), each operation rounded
\* as float64 and the conversion dropping the fraction.
SecondsUntilReset(tok, rate) == Int64(FMul(FDiv(FSub(One, tok), rate), Sixty))

\* Allow, lines 93-99: with no token in the bucket the state is left as it is
\* and (false, int64(tokens), now + secondsUntilReset) is returned; the
\* deferred Unlock runs.
AllowDeny(p) ==
    LET s == shardIdx[lp[p].key]
        tok == clients[lp[p].key].tokens IN
    /\ lp[p].pc = "decide"
    /\ ~HasToken(clients[lp[p].key])
    /\ lmu' = [lmu EXCEPT ![s] = IF @ = p THEN 0 ELSE @]
    /\ lret' = [allowed |-> FALSE, remaining |-> Int64(tok),
                resetTime |-> lp[p].t + SecondsUntilReset(tok, refillRate[s]),
                panic |-> FALSE]
    /\ lp' = [lp EXCEPT ![p] = IdleLimProc]
    /\ UNCHANGED <<brVars, now, conc, coalVars, cacheVars, refillRate, clients, allows>>

\* The clock moves on by a second, and at the end by a whole window.
LimTick ==
    /\ \/ now < LimMaxTime /\ now' = now + 1
       \/ now = LimMaxTime /\ now' = now + WindowSeconds
    /\ UNCHANGED <<conc, coalVars, cacheVars, limVars, brVars>>

LimNext ==
    \/ \E p \in LimProcs : AllowStart(p) /\ UNCHANGED driverVars
    \/ \E p \in LimProcs : AllowLock(p) /\ UNCHANGED driverVars
    \/ \E p \in LimProcs : AllowRefill(p) /\ UNCHANGED driverVars
    \/ \E p \in LimProcs : AllowAdmit(p) /\ UNCHANGED driverVars
    \/ \E p \in LimProcs : AllowDeny(p) /\ UNCHANGED driverVars
    \/ LimTick /\ UNCHANGED driverVars

----------------------------------------------------------------------------
(* circuitbreaker.Breaker *)

BrProcs == 1..NBrProcs

StateClosed == "Closed"
StateOpen == "Open"
StateHalfOpen == "HalfOpen"

\* v: the value an atomic operation returned; t: the second read from the
\* clock; st: the state the breaker was in when the call was made (history).
IdleBrProc == [pc |-> "idle", v |-> 0, t |-> 0, st |-> "none"]

NoBrReturn == [op |-> "none", ok |-> FALSE, st |-> "none"]

BrInit ==
    /\ state = StateClosed
    /\ failureCount = 0
    /\ successCount = 0
    /\ lastFailureTime = 0
    /\ healthScore = 100
    /\ bp = [p \in BrProcs |-> IdleBrProc]
    /\ brOps = 0
    /\ bret = NoBrReturn
    /\ consec = 0
    /\ hsince = 0
    /\ swaps = 0

InFlightBr == {p \in BrProcs : bp[p].pc # "idle"}

\* A goroutine that calls the breaker's methods on its own makes its next
\* call: the goroutines between calls are alike, so the first of them makes it.
BrStart(p) ==
    /\ Cardinality(InFlightBr) < conc
    /\ \A q \in BrProcs : q < p => bp[q].pc # "idle"
    /\ brOps < MaxBrOps

\* Caller p enters one of the breaker's methods.
BrEnter(p) ==
    /\ bp[p].pc = "idle"
    /\ brOps' = brOps + 1

BrReturn(p, op, ok, st) ==
    /\ bp' = [bp EXCEPT ![p] = IdleBrProc]
    /\ bret' = [op |-> op, ok |-> ok, st |-> st]

\* HealthTracker.updateHealth, lines 42-55: the moving average
\* current*alpha + delta*(1-alpha), clamped to [0, 100], truncated by int64().
updateHealthUnclamped(current, delta) ==
    (current * HealthDecayPct + delta * (100 - HealthDecayPct)) \div 100

updateHealth(current, delta) ==
    LET n == current * HealthDecayPct + delta * (100 - HealthDecayPct) IN
    IF n < 0 THEN 0 ELSE IF n > 100 * 100 THEN 100 ELSE n \div 100

\* Breaker.Allow, lines 125-129 and 139-140: the state is loaded; Closed and
\* HalfOpen return true, Open goes on to the timeout check.
AllowLoad(p) ==
    /\ BrEnter(p)
    /\ IF state = StateOpen
       THEN /\ bp' = [bp EXCEPT ![p].pc = "a_time"]
            /\ UNCHANGED bret
       ELSE BrReturn(p, "Allow", TRUE, state)
    /\ UNCHANGED <<now, conc, coalVars, cacheVars, limVars, state, failureCount,
                   successCount, lastFailureTime, healthScore, consec, hsince, swaps>>

\* line 131: time.Now().Unix() >= lastFailureTime + timeoutSeconds
TimeoutElapsedLate(t) == t > lastFailureTime + OpenTimeout
TimeoutElapsed(t) == t >= lastFailureTime + OpenTimeout

\* Breaker.Allow, line 131: time.Now().Unix(), the left operand, is evaluated
\* before lastFailureTime is loaded.
AllowClock(p) ==
    /\ bp[p].pc = "a_time"
    /\ bp' = [bp EXCEPT ![p].pc = "a_load", ![p].t = now]
    /\ UNCHANGED <<now, conc, coalVars, cacheVars, limVars, state, failureCount,
                   successCount, lastFailureTime, healthScore, brOps, bret, consec,
                   hsince, swaps>>

\* Breaker.Allow, lines 131 and 138: lastFailureTime is loaded; before the
\* timeout Allow returns false.
AllowCheck(p) ==
    /\ bp[p].pc = "a_load"
    /\ IF TimeoutElapsed(bp[p].t)
       THEN /\ bp' = [bp EXCEPT ![p].pc = "a_cas"]
            /\ UNCHANGED bret
       ELSE BrReturn(p, "Allow", FALSE, StateOpen)
    /\ UNCHANGED <<now, conc, coalVars, cacheVars, limVars, state, failureCount,
                   successCount, lastFailureTime, healthScore, brOps, consec, hsince, swaps>>

\* Breaker.Allow, lines 133 and 136: CompareAndSwap(StateOpen, StateHalfOpen);
\* the caller that loses the swap returns true at once.
CompareAndSwapBlind(cur, old) == TRUE
CompareAndSwap(cur, old) == cur = old

AllowCAS(p) ==
    /\ bp[p].pc = "a_cas"
    /\ IF CompareAndSwap(state, StateOpen)
       THEN /\ state' = StateHalfOpen
            /\ hsince' = 0
            /\ swaps' = swaps + 1
            /\ bp' = [bp EXCEPT ![p].pc = "a_zero"]
            /\ UNCHANGED bret
       ELSE /\ BrReturn(p, "Allow", TRUE, StateOpen)
            /\ UNCHANGED <<state, hsince, swaps>>
    /\ UNCHANGED <<now, conc, coalVars, cacheVars, limVars, failureCount,
                   successCount, lastFailureTime, healthScore, brOps, consec>>

\* Breaker.Allow, lines 134-136: successCount.Store(0), return true.
AllowZero(p) ==
    /\ bp[p].pc = "a_zero"
    /\ successCount' = 0
    /\ BrReturn(p, "Allow", TRUE, StateOpen)
    /\ UNCHANGED <<now, conc, coalVars, cacheVars, limVars, state, failureCount,
                   lastFailureTime, healthScore, brOps, consec, hsince, swaps>>

\* The deltas of RecordSuccess, RecordFailure and RecordTimeout, lines 22-35.
SuccessDelta == 10
FailureDelta == -20
TimeoutDelta == -50

\* updateHealth, line 43: current := float64(ht.healthScore.Load())
HealthLoad(p, next) ==
    /\ BrEnter(p)
    /\ bp' = [bp EXCEPT ![p].pc = next, ![p].v = healthScore, ![p].st = state]
    /\ UNCHANGED <<now, conc, coalVars, cacheVars, limVars, state, failureCount,
                   successCount, lastFailureTime, healthScore, bret, hsince, swaps>>

\* updateHealth, lines 45-54: the new score, computed from the score loaded
\* at line 43, is stored.
HealthStore(p, at, delta) ==
    /\ bp[p].pc = at
    /\ healthScore' = updateHealth(bp[p].v, delta)
    /\ UNCHANGED <<now, conc, coalVars, cacheVars, limVars, state, failureCount,
                   successCount, lastFailureTime, brOps, consec, hsince, swaps>>

\* Breaker.RecordSuccess, line 148: b.health.RecordSuccess()
SuccHealth(p) ==
    /\ HealthLoad(p, "s_health")
    /\ consec' = 0

SuccHealthStore(p) ==
    /\ HealthStore(p, "s_health", SuccessDelta)
    /\ bp' = [bp EXCEPT ![p].pc = "s_add", ![p].v = 0]
    /\ UNCHANGED bret

\* line 149: success := b.successCount.Add(1)
SuccAdd(p) ==
    /\ bp[p].pc = "s_add"
    /\ successCount' = successCount + 1
    /\ hsince' = hsince + 1
    /\ bp' = [bp EXCEPT ![p].pc = "s_load", ![p].v = successCount + 1]
    /\ UNCHANGED <<now, conc, coalVars, cacheVars, limVars, state, failureCount,
                   lastFailureTime, healthScore, brOps, bret, consec, swaps>>

\* line 152: int(success) >= b.successThreshold
EnoughSuccesses(success) == success >= SuccessThreshold

\* lines 151-152: the breaker is closed from HalfOpen only.
ShouldCloseAnyState(st, success) == EnoughSuccesses(success)
ShouldClose(st, success) == st = StateHalfOpen /\ EnoughSuccesses(success)

\* lines 151-152: the state is loaded; outside HalfOpen, or below the
\* threshold, RecordSuccess returns.
SuccLoad(p) ==
    /\ bp[p].pc = "s_load"
    /\ IF ShouldClose(state, bp[p].v)
       THEN /\ bp' = [bp EXCEPT ![p].pc = "s_close"]
            /\ UNCHANGED bret
       ELSE BrReturn(p, "RecordSuccess", TRUE, state)
    /\ UNCHANGED <<now, conc, coalVars, cacheVars, limVars, state, failureCount,
                   successCount, lastFailureTime, healthScore, brOps, consec, hsince, swaps>>

\* line 153: b.state.Store(StateClosed)
SuccClose(p) ==
    /\ bp[p].pc = "s_close"
    /\ state' = StateClosed
    /\ bp' = [bp EXCEPT ![p].pc = "s_reset"]
    /\ UNCHANGED <<now, conc, coalVars, cacheVars, limVars, failureCount,
                   successCount, lastFailureTime, healthScore, brOps, bret, consec,
                   hsince, swaps>>

\* line 154: b.failureCount.Store(0)
SuccReset(p) ==
    /\ bp[p].pc = "s_reset"
    /\ failureCount' = 0
    /\ BrReturn(p, "RecordSuccess", TRUE, StateHalfOpen)
    /\ UNCHANGED <<now, conc, coalVars, cacheVars, limVars, state, successCount,
                   lastFailureTime, healthScore, brOps, consec, hsince, swaps>>

\* Breaker.RecordFailure, line 161: b.health.RecordFailure()
FailHealth(p) ==
    /\ HealthLoad(p, "f_health")
    /\ consec' = consec + 1

FailHealthStore(p) ==
    /\ HealthStore(p, "f_health", FailureDelta)
    /\ bp' = [bp EXCEPT ![p].pc = "f_add", ![p].v = 0]
    /\ UNCHANGED bret

\* line 162: failures := b.failureCount.Add(1)
FailAdd(p) ==
    /\ bp[p].pc = "f_add"
    /\ failureCount' = failureCount + 1
    /\ bp' = [bp EXCEPT ![p].pc = "f_time", ![p].v = failureCount + 1]
    /\ UNCHANGED <<now, conc, coalVars, cacheVars, limVars, state, successCount,
                   lastFailureTime, healthScore, brOps, bret, consec, hsince, swaps>>

\* line 165: int(failures) >= b.failureThreshold
TooManyFailuresLate(failures) == failures > FailureThreshold
TooManyFailures(failures) == failures >= FailureThreshold

\* line 163: time.Now().Unix(), the argument of the store, is evaluated
\* before the store runs.
FailClock(p) ==
    /\ bp[p].pc = "f_time"
    /\ bp' = [bp EXCEPT ![p].pc = "f_store", ![p].t = now]
    /\ UNCHANGED <<now, conc, coalVars, cacheVars, limVars, state, failureCount,
                   successCount, lastFailureTime, healthScore, brOps, bret, consec,
                   hsince, swaps>>

\* lines 163-165: b.lastFailureTime.Store(...) of the second read; below the
\* threshold RecordFailure returns.
FailTime(p) ==
    /\ bp[p].pc = "f_store"
    /\ lastFailureTime' = bp[p].t
    /\ IF TooManyFailures(bp[p].v)
       THEN /\ bp' = [bp EXCEPT ![p].pc = "f_open"]
            /\ UNCHANGED bret
       ELSE BrReturn(p, "RecordFailure", TRUE, state)
    /\ UNCHANGED <<now, conc, coalVars, cacheVars, limVars, state, failureCount,
                   successCount, healthScore, brOps, consec, hsince, swaps>>

\* line 166: b.state.Store(StateOpen)
FailOpen(p) ==
    /\ bp[p].pc = "f_open"
    /\ state' = StateOpen
    /\ swaps' = 0
    /\ BrReturn(p, "RecordFailure", TRUE, state)
    /\ UNCHANGED <<now, conc, coalVars, cacheVars, limVars, failureCount,
                   successCount, lastFailureTime, healthScore, brOps, consec, hsince>>

\* HealthTracker.RecordSuccess, RecordFailure and RecordTimeout called on the
\* tracker itself, lines 22-35 (nothing in the gateway calls RecordTimeout).
TrackSuccess(p) ==
    /\ HealthLoad(p, "ts_health")
    /\ UNCHANGED consec

TrackFailure(p) ==
    /\ HealthLoad(p, "tf_health")
    /\ UNCHANGED consec

TrackTimeout(p) ==
    /\ HealthLoad(p, "tt_health")
    /\ UNCHANGED consec

TrackDelta(pc) ==
    CASE pc = "ts_health" -> SuccessDelta
      [] pc = "tf_health" -> FailureDelta
      [] pc = "tt_health" -> TimeoutDelta

TrackStore(p) ==
    /\ bp[p].pc \in {"ts_health", "tf_health", "tt_health"}
    /\ HealthStore(p, bp[p].pc, TrackDelta(bp[p].pc))
    /\ BrReturn(p, "HealthTracker", TRUE, state)

\* HealthTracker.Reset, lines 58-60: ht.healthScore.Store(100), one atomic
\* store (nothing in the gateway calls it).
ResetScore == 100

TrackReset(p) ==
    /\ BrEnter(p)
    /\ healthScore' = ResetScore
    /\ bret' = [op |-> "Reset", ok |-> TRUE, st |-> state]
    /\ UNCHANGED <<now, conc, coalVars, cacheVars, limVars, state, failureCount,
                   successCount, lastFailureTime, bp, consec, hsince, swaps>>

\* The clock moves on by a second.
BrTick ==
    /\ now < BrMaxTime
    /\ now' = now + 1
    /\ UNCHANGED <<conc, coalVars, cacheVars, limVars, brVars>>

BrNext ==
    \/ \E p \in BrProcs : BrStart(p) /\ AllowLoad(p) /\ UNCHANGED driverVars
    \/ \E p \in BrProcs : AllowClock(p) /\ UNCHANGED driverVars
    \/ \E p \in BrProcs : AllowCheck(p) /\ UNCHANGED driverVars
    \/ \E p \in BrProcs : AllowCAS(p) /\ UNCHANGED driverVars
    \/ \E p \in BrProcs : AllowZero(p) /\ UNCHANGED driverVars
    \/ \E p \in BrProcs : BrStart(p) /\ SuccHealth(p) /\ UNCHANGED driverVars
    \/ \E p \in BrProcs : SuccHealthStore(p) /\ UNCHANGED driverVars
    \/ \E p \in BrProcs : SuccAdd(p) /\ UNCHANGED driverVars
    \/ \E p \in BrProcs : SuccLoad(p) /\ UNCHANGED driverVars
    \/ \E p \in BrProcs : SuccClose(p) /\ UNCHANGED driverVars
    \/ \E p \in BrProcs : SuccReset(p) /\ UNCHANGED driverVars
    \/ \E p \in BrProcs : BrStart(p) /\ FailHealth(p) /\ UNCHANGED driverVars
    \/ \E p \in BrProcs : FailHealthStore(p) /\ UNCHANGED driverVars
    \/ \E p \in BrProcs : FailAdd(p) /\ UNCHANGED driverVars
    \/ \E p \in BrProcs : FailClock(p) /\ UNCHANGED driverVars
    \/ \E p \in BrProcs : FailTime(p) /\ UNCHANGED driverVars
    \/ \E p \in BrProcs : FailOpen(p) /\ UNCHANGED driverVars
    \/ BrTick /\ UNCHANGED driverVars

\* A call of Allow is under way in p; a call of a Record method is.
InAllow(p) == bp[p].pc \in {"a_time", "a_load", "a_cas", "a_zero"}
InRecord(p) == bp[p].pc # "idle" /\ ~InAllow(p)

\* The breaker with overlapping Allow calls: RecordSuccess and RecordFailure
\* run one at a time and with no Allow under way.
ProbeNext ==
    \/ \E p \in BrProcs :
          (\A q \in BrProcs : ~InRecord(q)) /\ BrStart(p) /\ AllowLoad(p)
          /\ UNCHANGED driverVars
    \/ \E p \in BrProcs : AllowClock(p) /\ UNCHANGED driverVars
    \/ \E p \in BrProcs : AllowCheck(p) /\ UNCHANGED driverVars
    \/ \E p \in BrProcs : AllowCAS(p) /\ UNCHANGED driverVars
    \/ \E p \in BrProcs : AllowZero(p) /\ UNCHANGED driverVars
    \/ \E p \in BrProcs :
          InFlightBr = {} /\ BrStart(p) /\ SuccHealth(p) /\ UNCHANGED driverVars
    \/ \E p \in BrProcs : SuccHealthStore(p) /\ UNCHANGED driverVars
    \/ \E p \in BrProcs : SuccAdd(p) /\ UNCHANGED driverVars
    \/ \E p \in BrProcs : SuccLoad(p) /\ UNCHANGED driverVars
    \/ \E p \in BrProcs : SuccClose(p) /\ UNCHANGED driverVars
    \/ \E p \in BrProcs : SuccReset(p) /\ UNCHANGED driverVars
    \/ \E p \in BrProcs :
          InFlightBr = {} /\ BrStart(p) /\ FailHealth(p) /\ UNCHANGED driverVars
    \/ \E p \in BrProcs : FailHealthStore(p) /\ UNCHANGED driverVars
    \/ \E p \in BrProcs : FailAdd(p) /\ UNCHANGED driverVars
    \/ \E p \in BrProcs : FailClock(p) /\ UNCHANGED driverVars
    \/ \E p \in BrProcs : FailTime(p) /\ UNCHANGED driverVars
    \/ \E p \in BrProcs : FailOpen(p) /\ UNCHANGED driverVars
    \/ BrTick /\ UNCHANGED driverVars

----------------------------------------------------------------------------
(* circuitbreaker.Breaker.Execute *)

\* errors.New("circuit breaker is open")
BreakerOpenErr == "circuit breaker is open"

\* The errors the operation passed to Execute may return.
FnErrs == {NilErr, UpstreamErr}

IdleExec == [pc |-> "idle", allowed |-> FALSE, called |-> FALSE, err |-> NilErr,
             calls |-> <<>>]

NoExecReturn == [op |-> "none", allowed |-> FALSE, called |-> FALSE,
                 fnErr |-> NilErr, err |-> NilErr, calls |-> <<>>]

ExecInit ==
    /\ xp = [p \in BrProcs |-> IdleExec]
    /\ xret = NoExecReturn

\* The steps of Allow after its first, and of the Record methods after theirs.
AllowSteps(p) == AllowClock(p) \/ AllowCheck(p) \/ AllowCAS(p) \/ AllowZero(p)

RecordSteps(p) ==
    \/ SuccHealthStore(p) \/ FailHealthStore(p)
    \/ SuccAdd(p) \/ SuccLoad(p) \/ SuccClose(p) \/ SuccReset(p)
    \/ FailAdd(p) \/ FailClock(p) \/ FailTime(p) \/ FailOpen(p)

\* line 108: if !b.Allow()
ExecMayRunAlways(ok) == TRUE
ExecMayRun(ok) == ok

InFlightExec == {p \in BrProcs : xp[p].pc # "idle"}

\* A goroutine calls Execute, which makes two calls of the breaker's methods.
ExecStart(p) ==
    /\ xp[p].pc = "idle"
    /\ Cardinality(InFlightExec) < conc
    /\ brOps + 2 <= MaxBrOps

\* Execute, lines 107-110: b.Allow() is called and runs to its return; when it
\* returned false Execute returns the breaker-open error.
ExecAllow(p) ==
    /\ \/ ExecStart(p) /\ AllowLoad(p)
       \/ xp[p].pc = "x_allow" /\ AllowSteps(p)
    /\ IF bp'[p].pc # "idle"
       THEN /\ xp' = [xp EXCEPT ![p].pc = "x_allow"]
            /\ UNCHANGED xret
       ELSE IF ExecMayRun(bret'.ok)
       THEN /\ xp' = [xp EXCEPT ![p].pc = "x_fn", ![p].allowed = bret'.ok,
                                ![p].calls = Append(@, bret'.op)]
            /\ UNCHANGED xret
       ELSE /\ xp' = [xp EXCEPT ![p] = IdleExec]
            /\ xret' = [op |-> "Execute", allowed |-> bret'.ok, called |-> FALSE,
                        fnErr |-> NilErr, err |-> BreakerOpenErr,
                        calls |-> Append(xp[p].calls, bret'.op)]

\* Execute, line 112: err := fn(), the operation is invoked.
ExecFn(p) ==
    /\ xp[p].pc = "x_fn"
    /\ xp' = [xp EXCEPT ![p].pc = "x_infn", ![p].called = TRUE]
    /\ UNCHANGED <<now, conc, coalVars, cacheVars, limVars, brVars, xret>>

\* The operation returns err.
ExecFnReturn(p, err) ==
    /\ xp[p].pc = "x_infn"
    /\ xp' = [xp EXCEPT ![p].pc = "x_rec", ![p].err = err]
    /\ UNCHANGED <<now, conc, coalVars, cacheVars, limVars, brVars, xret>>

\* Execute, lines 114-120: RecordFailure on an error, RecordSuccess otherwise,
\* runs to its return, and Execute returns err.
ExecRecord(p) ==
    /\ \/ xp[p].pc = "x_rec" /\ xp[p].err # NilErr /\ FailHealth(p)
       \/ xp[p].pc = "x_rec" /\ xp[p].err = NilErr /\ SuccHealth(p)
       \/ xp[p].pc = "x_recording" /\ RecordSteps(p)
    /\ IF bp'[p].pc # "idle"
       THEN /\ xp' = [xp EXCEPT ![p].pc = "x_recording"]
            /\ UNCHANGED xret
       ELSE /\ xp' = [xp EXCEPT ![p] = IdleExec]
            /\ xret' = [op |-> "Execute", allowed |-> xp[p].allowed,
                        called |-> xp[p].called, fnErr |-> xp[p].err,
                        err |-> xp[p].err, calls |-> Append(xp[p].calls, bret'.op)]

\* The health tracker on its own, its three Record methods called by
\* overlapping goroutines.
HealthNext ==
    \/ \E p \in BrProcs : BrStart(p) /\ TrackSuccess(p) /\ UNCHANGED driverVars
    \/ \E p \in BrProcs : BrStart(p) /\ TrackFailure(p) /\ UNCHANGED driverVars
    \/ \E p \in BrProcs : BrStart(p) /\ TrackTimeout(p) /\ UNCHANGED driverVars
    \/ \E p \in BrProcs : TrackStore(p) /\ UNCHANGED driverVars
    \/ \E p \in BrProcs : BrStart(p) /\ TrackReset(p) /\ UNCHANGED driverVars

\* Execute is called by overlapping goroutines, as forwardRequest calls it,
\* while the clock moves on.
ExecNext ==
    \/ \E p \in BrProcs : ExecAllow(p) /\ UNCHANGED pipeVars
    \/ \E p \in BrProcs : ExecFn(p) /\ UNCHANGED pipeVars
    \/ \E p \in BrProcs : \E err \in FnErrs : ExecFnReturn(p, err) /\ UNCHANGED pipeVars
    \/ \E p \in BrProcs : ExecRecord(p) /\ UNCHANGED pipeVars
    \/ BrTick /\ UNCHANGED driverVars

----------------------------------------------------------------------------
(* proxy.ProxyHandler *)

Handlers == 1..NHandlers

\* The requests that arrive: r.RemoteAddr, r.Method, r.URL.Path (no query).
Requests ==
    {[client |-> <<49>>, Method |-> "GET", Path |-> "/a"],
     [client |-> <<49>>, Method |-> "POST", Path |-> "/a"],
     [client |-> <<51>>, Method |-> "GET", Path |-> "/a"],
     [client |-> <<51>>, Method |-> "GET", Path |-> "/b"],
     [client |-> LongClient, Method |-> "GET", Path |-> "/a"]}

NoRoute == [nil |-> TRUE]

\* config.RouteConfig: path, methods, rate_limit_per_minute, timeout_seconds,
\* enable_cache.
Route(path, methods, rateLimit, enableCache) ==
    [Path |-> path, Methods |-> methods, RateLimit |-> rateLimit,
     Timeout |-> RouteTimeout, EnableCache |-> enableCache]

\* The snapshots the configuration service publishes, one after another.
Snapshots ==
    << [Routes |-> <<Route("/a", {"GET", "POST"}, 0, TRUE)>>,
        RateLimitEnabled |-> TRUE, CacheEnabled |-> TRUE, TTLSeconds |-> 60,
        CircuitBreakerEnabled |-> TRUE],
       [Routes |-> <<Route("/a", {"GET"}, 120, TRUE),
                     Route("/b", {"GET", "POST"}, 0, FALSE)>>,
        RateLimitEnabled |-> FALSE, CacheEnabled |-> FALSE, TTLSeconds |-> 0,
        CircuitBreakerEnabled |-> FALSE] >>

SnapshotIds == 1..Len(Snapshots)

\* What the upstream answers: a response, whatever its status.
UpstreamResponses ==
    {[StatusCode |-> 200, Headers |-> <<>>, Body |-> "xx", Err |-> NilErr],
     [StatusCode |-> 500, Headers |-> <<>>, Body |-> "xx", Err |-> NilErr]}

ClientTimeoutErr == "Client.Timeout exceeded while awaiting headers"

\* cache.Hash, cache.go lines 155-162: the SHA-256 digest of method, path and
\* query written one after another, here a short name for each digest.
Hash(method, path, query) ==
    LET m == method \o path \o query IN
    IF m = "GET/a" THEN "a" ELSE IF m = "GET/b" THEN "b" ELSE "c"

\* handler.go line 107: fmt.Sprintf("%s:%s:%s", r.Method, r.URL.Path, r.URL.RawQuery)
CoalesceKey(method, path, query) == method \o ":" \o path \o ":" \o query

\* A handler goroutine between requests.  lim, cache, coal, exec: the call it
\* has under way in each component (0: none).  start: the second the request
\* arrived (line 57).  calls (the component calls the
\* request has made) and seen (the snapshots whose fields it has read) are
\* history.
IdleReq ==
    [pc |-> "idle", client |-> <<>>, Method |-> "", Path |-> "", route |-> NoRoute,
     lim |-> 0, cache |-> 0, coal |-> 0, exec |-> 0,
     resp |-> NilResp, err |-> NilErr, status |-> 0, fromCache |-> FALSE,
     remaining |-> 0, resetTime |-> 0, start |-> 0, upStart |-> 0,
     calls |-> <<>>, seen |-> {}, cfg |-> 0]

\* History: the response the handler wrote last.
NoWritten == [status |-> 0, fromCache |-> FALSE, remaining |-> 0, retryAfter |-> 0,
              calls |-> <<>>]

\* metrics.NewCollector
NewCollector ==
    [totalRequests |-> 0, cacheHits |-> 0, cacheMisses |-> 0, rateLimitHits |-> 0]

\* NewProxyHandler, lines 31-54, after config.SetConfig(cfg) in main.
PipeInit ==
    /\ gcfg = 1
    /\ pcfg = 1
    /\ rq = [h \in Handlers |-> IdleReq]
    /\ metrics = NewCollector
    /\ upCalls = 0
    /\ hret = NoWritten
    /\ served = 0

InFlightReq == {h \in Handlers : rq[h].pc # "idle"}

\* Collector.RecordRequest, limiter.go lines 180-188: the request and cache
\* counters (the status-class and latency figures are left out).
RecordRequest(m, statusCode, fromCache) ==
    [m EXCEPT !.totalRequests = @ + 1,
              !.cacheHits = IF fromCache THEN @ + 1 ELSE @,
              !.cacheMisses = IF fromCache THEN @ ELSE @ + 1]

\* Collector.RecordRateLimit, limiter.go lines 215-217.
RecordRateLimit(m) == [m EXCEPT !.rateLimitHits = @ + 1]

\* Collector.RecordCacheEvent, limiter.go lines 220-226 (nothing in the
\* gateway calls it).
RecordCacheEvent(m, isHit) ==
    [m EXCEPT !.cacheHits = IF isHit THEN @ + 1 ELSE @,
              !.cacheMisses = IF isHit THEN @ ELSE @ + 1]

\* ServeHTTP, lines 57-60: a request arrives: start := time.Now(); the handler
\* takes the snapshot config.GetConfig() returns: cfg := config.GetConfig().
ServeStart(h) ==
    /\ rq[h].pc = "idle"
    /\ Cardinality(InFlightReq) < conc
    /\ \A q \in Handlers : q < h => rq[q].pc # "idle"
    /\ served < MaxRequests
    /\ served' = served + 1
    /\ \E r \in Requests :
         rq' = [rq EXCEPT ![h] = [IdleReq EXCEPT !.pc = "adopt", !.client = r.client,
                                                 !.Method = r.Method, !.Path = r.Path,
                                                 !.start = now, !.cfg = gcfg]]
    /\ UNCHANGED <<compVars, execVars, gcfg, pcfg, metrics, upCalls, hret>>

\* ServeHTTP, lines 61-63: if cfg != nil && cfg != p.cfg { p.cfg = cfg }, with
\* the snapshot read at line 60, whatever has been published or stored since
\* (storing the snapshot p.cfg holds already would change nothing, so the
\* test and the store are one step).
AdoptConfig(h) ==
    /\ rq[h].pc = "adopt"
    /\ pcfg' = IF rq[h].cfg # pcfg THEN rq[h].cfg ELSE pcfg
    /\ rq' = [rq EXCEPT ![h].pc = "route"]
    /\ UNCHANGED <<compVars, execVars, gcfg, metrics, upCalls, hret, served>>

\* findRoute, lines 226-238: the first route of p.cfg.Routes with the path
\* that lists the method.
RECURSIVE findRoute(_, _, _)
findRoute(routes, path, method) ==
    IF routes = <<>> THEN NoRoute
    ELSE IF Head(routes).Path = path /\ method \in Head(routes).Methods
         THEN Head(routes)
         ELSE findRoute(Tail(routes), path, method)

\* ServeHTTP, lines 66-71: no route is a 404.
FindRoute(h) ==
    LET route == findRoute(Snapshots[pcfg].Routes, rq[h].Path, rq[h].Method) IN
    /\ rq[h].pc = "route"
    /\ rq' = [rq EXCEPT ![h].seen = @ \cup {pcfg},
                        ![h].route = route,
                        ![h].status = IF route = NoRoute THEN 404 ELSE 0,
                        ![h].pc = IF route = NoRoute THEN "record" ELSE "limit"]
    /\ UNCHANGED <<compVars, execVars, gcfg, pcfg, metrics, upCalls, hret, served>>

\* ServeHTTP, line 74: if p.cfg.RateLimit.Enabled
LimitStart(h) ==
    /\ rq[h].pc = "limit"
    /\ rq' = [rq EXCEPT ![h].pc = IF Snapshots[pcfg].RateLimitEnabled THEN "allowcall"
                                  ELSE "cache",
                        ![h].seen = @ \cup {pcfg}]
    /\ UNCHANGED <<compVars, execVars, gcfg, pcfg, metrics, upCalls, hret, served>>

\* ServeHTTP, line 75: the limiter is asked, with the client's address and the
\* route's rate.  A panic of Allow ends ServeHTTP at once: nothing is written
\* and nothing is recorded.
LimitCall(h) ==
    /\ rq[h].pc = "allowcall"
    /\ \E p \in LimProcs :
         /\ LimiterAllow(p, rq[h].client, rq[h].route.RateLimit)
         /\ rq' = IF OutOfRange(rq[h].client) THEN [rq EXCEPT ![h] = IdleReq]
                  ELSE [rq EXCEPT ![h].pc = "allow", ![h].lim = p,
                                  ![h].calls = Append(@, "Allow")]
    /\ UNCHANGED <<execVars, gcfg, pcfg, metrics, upCalls, hret, served>>

\* ServeHTTP, line 76: if !allowed
AdmittedAlways(allowed) == TRUE
Admitted(allowed) == allowed

\* ServeHTTP, lines 75-76: Allow runs to its return.
LimitStep(h) ==
    LET p == rq[h].lim IN
    /\ rq[h].pc = "allow"
    /\ (AllowLock(p) \/ AllowRefill(p) \/ AllowAdmit(p) \/ AllowDeny(p))
    /\ rq' = IF lp'[p].pc # "idle" THEN rq
             ELSE IF Admitted(lret'.allowed) THEN [rq EXCEPT ![h].pc = "cache", ![h].lim = 0]
             ELSE [rq EXCEPT ![h].pc = "reject", ![h].lim = 0,
                             ![h].remaining = lret'.remaining,
                             ![h].resetTime = lret'.resetTime]
    /\ UNCHANGED <<execVars, gcfg, pcfg, metrics, upCalls, hret, served>>

\* ServeHTTP, lines 77-84: the X-RateLimit headers, Retry-After =
\* resetTime - time.Now().Unix(), 429 and RecordRateLimit.
Reject(h) ==
    /\ rq[h].pc = "reject"
    /\ metrics' = RecordRateLimit(metrics)
    /\ hret' = [status |-> 429, fromCache |-> FALSE, remaining |-> rq[h].remaining,
                retryAfter |-> rq[h].resetTime - now, calls |-> rq[h].calls]
    /\ rq' = [rq EXCEPT ![h] = IdleReq]
    /\ UNCHANGED <<compVars, execVars, gcfg, pcfg, upCalls, served>>

\* ServeHTTP, line 89: r.Method == GET && route.EnableCache && p.cfg.Cache.Enabled
CacheEligibleNever(r, cfg) == FALSE
CacheEligible(r, cfg) == r.Method = "GET" /\ r.route.EnableCache /\ cfg.CacheEnabled

\* The snapshots read so far, after a test that reads p.cfg.Cache only for a
\* GET on a route with enable_cache.
SeenCache(r) == IF r.Method = "GET" /\ r.route.EnableCache
                THEN r.seen \cup {pcfg} ELSE r.seen

\* ServeHTTP, lines 88-89: the test that decides whether the cache is asked.
CacheLookup(h) ==
    LET r == rq[h] IN
    /\ r.pc = "cache"
    /\ rq' = [rq EXCEPT ![h].pc = IF CacheEligible(r, Snapshots[pcfg]) THEN "getcall"
                                  ELSE IF r.Method = "GET" THEN "coalesce"
                                  ELSE "forward",
                        ![h].seen = SeenCache(r)]
    /\ UNCHANGED <<compVars, execVars, gcfg, pcfg, metrics, upCalls, hret, served>>

\* ServeHTTP, lines 90-91: the cache is asked for the request's key.
CacheGet(h) ==
    LET r == rq[h] IN
    /\ r.pc = "getcall"
    /\ \E p \in CacheProcs :
         /\ \A q \in CacheProcs : q < p => kp[q].pc # "idle"
         /\ Get(p, Hash(r.Method, r.Path, ""))
         /\ rq' = [rq EXCEPT ![h].pc = IF kp'[p].pc = "check" THEN "get"
                                       ELSE "coalesce",
                             ![h].cache = IF kp'[p].pc = "check" THEN p ELSE 0,
                             ![h].calls = Append(@, "Get")]
    /\ UNCHANGED <<execVars, gcfg, pcfg, metrics, upCalls, hret, served>>

\* ServeHTTP, lines 91-102: Get runs to its return; a hit is written to the
\* client as it is.
CacheStep(h) ==
    LET p == rq[h].cache IN
    /\ rq[h].pc = "get"
    /\ \/ GetExpired(p) \/ GetExpire(p) \/ GetFresh(p) \/ GetClock(p)
       \/ GetTouch(p)
    /\ rq' = IF kp'[p].pc # "idle" THEN rq
             ELSE IF kret'.hit
             THEN [rq EXCEPT ![h].pc = "record", ![h].cache = 0,
                             ![h].status = kret'.ret.StatusCode,
                             ![h].fromCache = TRUE]
             ELSE [rq EXCEPT ![h].pc = "coalesce", ![h].cache = 0]
    /\ UNCHANGED <<execVars, gcfg, pcfg, metrics, upCalls, hret, served>>

\* ServeHTTP, lines 106-111: a GET goes through the coalescer.
CoalesceStart(h) ==
    /\ rq[h].pc = "coalesce"
    /\ \E c \in Callers :
         /\ \A q \in Callers : q < c => cp[q].pc # "idle"
         /\ Do(c, CoalesceKey(rq[h].Method, rq[h].Path, ""))
         /\ rq' = [rq EXCEPT ![h].pc = "do", ![h].coal = c,
                             ![h].calls = Append(@, "Do")]
    /\ UNCHANGED <<execVars, gcfg, pcfg, metrics, upCalls, hret, served>>

\* Coalescer.Do runs: up to the call of fn for the executor, to its return
\* for the others and for the executor after fn.
CoalesceStep(h) ==
    LET c == rq[h].coal IN
    /\ rq[h].pc = "do"
    /\ \/ DoEnroll(c) \/ DoSelect(c) \/ DoReceive(c) \/ DoTimeout(c)
       \/ DoNotify(c) \/ DoSchedule(c)
    /\ rq' = IF cp'[c].pc = "infn" THEN [rq EXCEPT ![h].pc = "forward"]
             ELSE IF cp'[c].pc = "returned"
             THEN [rq EXCEPT ![h].pc = "respond", ![h].coal = 0,
                             ![h].resp = cp'[c].ret.resp, ![h].err = cp'[c].ret.err]
             ELSE rq
    /\ UNCHANGED <<execVars, gcfg, pcfg, metrics, upCalls, hret, served>>

\* Where the handler stands after a step of Execute's call of Allow.
AfterAllow(h, p) ==
    IF xp'[p].pc = "x_allow" THEN [rq EXCEPT ![h].pc = "execallow", ![h].exec = p]
    ELSE IF xp'[p].pc = "x_fn" THEN [rq EXCEPT ![h].pc = "fn", ![h].exec = p]
    ELSE [rq EXCEPT ![h].pc = "fwdret", ![h].exec = 0, ![h].resp = NilResp,
                    ![h].err = xret'.err]

\* forwardRequest, lines 162-192: the outbound request is built on
\* r.Context(), together with a context that ends after route.Timeout; then
\* if p.cfg.CircuitBreaker.Enabled.
ForwardStart(h) ==
    /\ rq[h].pc = "forward"
    /\ rq' = [rq EXCEPT ![h].pc = IF Snapshots[pcfg].CircuitBreakerEnabled
                                  THEN "execute" ELSE "fn",
                        ![h].seen = @ \cup {pcfg}]
    /\ UNCHANGED <<compVars, execVars, gcfg, pcfg, metrics, upCalls, hret, served>>

\* forwardRequest, line 193: the call is handed to Execute (which does not
\* look at the context).
ExecuteCall(h) ==
    /\ rq[h].pc = "execute"
    /\ \E p \in BrProcs :
         /\ \A q \in BrProcs : q < p => xp[q].pc # "idle"
         /\ xp[p].pc = "idle"
         /\ ExecAllow(p)
         /\ rq' = [AfterAllow(h, p) EXCEPT ![h].calls = Append(@, "Execute")]
    /\ UNCHANGED <<gcfg, pcfg, metrics, upCalls, hret, served>>

\* forwardRequest, lines 193-199: p.client.Do(req) starts, inside Execute's fn
\* or on its own.
UpstreamCall(h) ==
    /\ rq[h].pc = "fn"
    /\ IF rq[h].exec # 0 THEN ExecFn(rq[h].exec)
       ELSE UNCHANGED <<compVars, execVars>>
    /\ upCalls' = upCalls + 1
    /\ rq' = [rq EXCEPT ![h].pc = "upstream", ![h].upStart = now,
                        ![h].calls = Append(@, "client.Do")]
    /\ UNCHANGED <<gcfg, pcfg, metrics, hret, served>>

\* handler.go line 44: http.Client.Timeout = cfg.Timeouts.TotalSeconds, the
\* only deadline the outbound call has besides the inbound request's own
\* context (0: none).
ClientTimedOut(r) == TotalSeconds > 0 /\ now >= r.upStart + TotalSeconds

\* What p.client.Do(req) may return now: an answer of the upstream, a
\* transport error, or the client's timeout once it has run out.
UpstreamOutcomes(r) ==
    IF ClientTimedOut(r)
    THEN {[resp |-> NilResp, err |-> ClientTimeoutErr]}
    ELSE {[resp |-> x, err |-> NilErr] : x \in UpstreamResponses}
         \cup {[resp |-> NilResp, err |-> UpstreamErr]}

\* p.client.Do(req) returns.
UpstreamReturn(h) ==
    /\ rq[h].pc = "upstream"
    /\ \E o \in UpstreamOutcomes(rq[h]) :
         /\ IF rq[h].exec # 0 THEN ExecFnReturn(rq[h].exec, o.err)
            ELSE UNCHANGED <<compVars, execVars>>
         /\ rq' = [rq EXCEPT ![h].pc = IF rq[h].exec # 0 THEN "execrec" ELSE "fwdret",
                             ![h].resp = o.resp, ![h].err = o.err]
    /\ UNCHANGED <<gcfg, pcfg, metrics, upCalls, hret, served>>

\* Execute runs: its call of Allow to the return, before fn; after fn it
\* records the outcome and returns fn's error.
ExecuteStep(h) ==
    LET p == rq[h].exec IN
    /\ \/ /\ rq[h].pc = "execallow"
          /\ xp[p].pc = "x_allow"
          /\ ExecAllow(p)
          /\ rq' = AfterAllow(h, p)
       \/ /\ rq[h].pc = "execrec"
          /\ ExecRecord(p)
          /\ rq' = IF xp'[p].pc # "idle" THEN rq
                   ELSE [rq EXCEPT ![h].pc = "fwdret", ![h].exec = 0,
                                   ![h].err = xret'.err]
    /\ UNCHANGED <<gcfg, pcfg, metrics, upCalls, hret, served>>

\* forwardRequest, lines 202-223: what it may return: (nil, err) after an
\* error of the call; otherwise the response, or (nil, err) when
\* io.ReadAll(resp.Body) fails (lines 208-211), after Execute has recorded
\* the call as a success.
ForwardOutcomes(r) ==
    IF r.err # NilErr THEN {[resp |-> NilResp, err |-> r.err]}
    ELSE {[resp |-> r.resp, err |-> NilErr], [resp |-> NilResp, err |-> ReadErr]}

\* forwardRequest returns; in a GET that is fn's return inside Coalescer.Do.
ForwardReturn(h) ==
    LET r == rq[h] IN
    /\ r.pc = "fwdret"
    /\ \E o \in ForwardOutcomes(r) :
         IF r.coal # 0
         THEN /\ FnReturn(r.coal, o)
              /\ rq' = [rq EXCEPT ![h].pc = "do", ![h].resp = NilResp, ![h].err = NilErr]
         ELSE /\ rq' = [rq EXCEPT ![h].pc = "respond", ![h].resp = o.resp,
                                  ![h].err = o.err]
              /\ UNCHANGED compVars
    /\ UNCHANGED <<execVars, gcfg, pcfg, metrics, upCalls, hret, served>>

\* handler.go lines 130-134: the cache.Response built from the response.
CacheResponse(resp) ==
    [StatusCode |-> resp.StatusCode, Headers |-> resp.Headers, Body |-> resp.Body,
     TTL |-> 0]

\* ServeHTTP, line 129: route.EnableCache && p.cfg.Cache.Enabled && StatusCode == 200
ShouldStore(r, cfg) ==
    r.Method = "GET" /\ r.route.EnableCache /\ cfg.CacheEnabled /\ r.resp.StatusCode = 200

\* ServeHTTP, lines 113-129 and 144-157: an error is a 502; a response is
\* written to the client; for a GET the test of line 129 decides whether it
\* is stored in the cache.
Respond(h) ==
    LET r == rq[h] IN
    /\ r.pc = "respond"
    /\ rq' = IF r.err # NilErr
             THEN [rq EXCEPT ![h].pc = "record", ![h].status = 502]
             ELSE [rq EXCEPT ![h].pc = IF ShouldStore(r, Snapshots[pcfg]) THEN "store"
                                       ELSE "record",
                             ![h].status = r.resp.StatusCode,
                             ![h].seen = SeenCache(r)]
    /\ UNCHANGED <<compVars, execVars, gcfg, pcfg, metrics, upCalls, hret, served>>

\* ServeHTTP, lines 130-135: Set is called with the response and with
\* p.cfg.Cache.TTLSeconds, read from the snapshot p.cfg points to now.
CacheStore(h) ==
    LET r == rq[h] IN
    /\ r.pc = "store"
    /\ \E p \in CacheProcs :
         /\ \A q \in CacheProcs : q < p => kp[q].pc # "idle"
         /\ Set(p, Hash(r.Method, r.Path, ""), CacheResponse(r.resp),
                Snapshots[pcfg].TTLSeconds)
         /\ rq' = [rq EXCEPT ![h].pc = IF kp'[p].pc = "setlock" THEN "set"
                                       ELSE "record",
                             ![h].cache = IF kp'[p].pc = "setlock" THEN p ELSE 0,
                             ![h].calls = Append(@, "Set"),
                             ![h].seen = @ \cup {pcfg}]
    /\ UNCHANGED <<execVars, gcfg, pcfg, metrics, upCalls, hret, served>>

\* ServeHTTP, lines 131-136: Set runs to its return.
CacheSet(h) ==
    LET p == rq[h].cache IN
    /\ rq[h].pc = "set"
    /\ (SetLocked(p) \/ EvictClock(p) \/ EvictScan(p))
    /\ rq' = IF kp'[p].pc # "idle" THEN rq
             ELSE [rq EXCEPT ![h].pc = "record", ![h].cache = 0]
    /\ UNCHANGED <<execVars, gcfg, pcfg, metrics, upCalls, hret, served>>

\* ServeHTTP, lines 70, 100, 115, 138, 146 and 159: RecordRequest with the
\* status written, and the handler returns.
Record(h) ==
    /\ rq[h].pc = "record"
    /\ metrics' = RecordRequest(metrics, rq[h].status, rq[h].fromCache)
    /\ hret' = [status |-> rq[h].status, fromCache |-> rq[h].fromCache,
                remaining |-> 0, retryAfter |-> 0, calls |-> rq[h].calls]
    /\ rq' = [rq EXCEPT ![h] = IdleReq]
    /\ UNCHANGED <<compVars, execVars, gcfg, pcfg, upCalls, served>>

\* The collector on its own: its three Record methods, each a handful of
\* atomic additions, called with any arguments.
CollectorUnchanged ==
    UNCHANGED <<now, conc, coalVars, cacheVars, limVars, brVars, execVars,
                gcfg, pcfg, rq, upCalls, hret, served>>

CollectRequest ==
    /\ metrics.totalRequests < MaxRecords
    /\ \E statusCode \in {200, 404, 502} : \E fromCache \in BOOLEAN :
         metrics' = RecordRequest(metrics, statusCode, fromCache)
    /\ CollectorUnchanged

CollectRateLimit ==
    /\ metrics.rateLimitHits < MaxRecords
    /\ metrics' = RecordRateLimit(metrics)
    /\ CollectorUnchanged

CollectCacheEvent ==
    /\ metrics.cacheHits + metrics.cacheMisses < 2 * MaxRecords
    /\ \E isHit \in BOOLEAN : metrics' = RecordCacheEvent(metrics, isHit)
    /\ CollectorUnchanged

CollectorNext == CollectRequest \/ CollectRateLimit \/ CollectCacheEvent

\* The configuration service publishes another snapshot: config.GetConfig()
\* returns it from now on.  (Only a request that arrives reads it, so the
\* reloads while none can arrive are left out.)
Reload ==
    /\ Cardinality(InFlightReq) < conc
    /\ served < MaxRequests
    /\ \E i \in SnapshotIds : i # gcfg /\ gcfg' = i
    /\ UNCHANGED <<compVars, execVars, pcfg, rq, metrics, upCalls, hret, served>>

\* The clock moves on between any two steps of a request and between
\* requests, by a second (up to LimMaxTime of them in a row) or by a minute
\* (once).
PipeTick ==
    /\ \/ /\ now % WindowSeconds < LimMaxTime
          /\ now' = now + 1
       \/ /\ now < WindowSeconds
          /\ now' = now + WindowSeconds
    /\ UNCHANGED <<conc, coalVars, cacheVars, limVars, brVars, driverVars>>

\* The steps of the requests and the reloads.
PipeSteps ==
    \/ \E h \in Handlers : ServeStart(h)
    \/ \E h \in Handlers : AdoptConfig(h)
    \/ \E h \in Handlers : FindRoute(h)
    \/ \E h \in Handlers : LimitStart(h)
    \/ \E h \in Handlers : LimitCall(h)
    \/ \E h \in Handlers : LimitStep(h)
    \/ \E h \in Handlers : Reject(h)
    \/ \E h \in Handlers : CacheLookup(h)
    \/ \E h \in Handlers : CacheGet(h)
    \/ \E h \in Handlers : CacheStep(h)
    \/ \E h \in Handlers : CoalesceStart(h)
    \/ \E h \in Handlers : CoalesceStep(h)
    \/ \E h \in Handlers : ForwardStart(h)
    \/ \E h \in Handlers : ExecuteCall(h)
    \/ \E h \in Handlers : UpstreamCall(h)
    \/ \E h \in Handlers : UpstreamReturn(h)
    \/ \E h \in Handlers : ExecuteStep(h)
    \/ \E h \in Handlers : ForwardReturn(h)
    \/ \E h \in Handlers : Respond(h)
    \/ \E h \in Handlers : CacheStore(h)
    \/ \E h \in Handlers : CacheSet(h)
    \/ \E h \in Handlers : Record(h)
    \/ Reload

PipeNext ==
    \/ PipeSteps
    \/ Reap /\ UNCHANGED driverVars
    \/ PipeTick

----------------------------------------------------------------------------
\* The state after main has built the components; c calls may overlap.
InitWith(c) ==
    /\ now = 0
    /\ conc = c
    /\ CoalInit
    /\ CacheInit
    /\ LimInit
    /\ BrInit
    /\ ExecInit
    /\ PipeInit

InitCoalescer == InitWith(NCallers)

SpecCoalescer == InitCoalescer /\ [][CoalNext]_vars

\* The coalescer with every call followed to its end, two calls at a time.
InitCoalescerLive == InitWith(2)

SpecCoalescerLive == InitCoalescerLive /\ [][CoalLiveNext]_vars /\ CoalFairness

InitCache == InitWith(NCacheProcs)

SpecCache == InitCache /\ [][CacheNext]_vars

\* The cache with one call at a time.
InitCacheSeq == InitWith(1)

SpecCacheSeq == InitCacheSeq /\ [][CacheNext]_vars

\* The cache with overlapping calls on one key.
InitCacheRace == InitWith(NCacheProcs)

SpecCacheRace == InitCacheRace /\ [][CacheRaceNext]_vars

InitLimiter == InitWith(NLimProcs)

SpecLimiter == InitLimiter /\ [][LimNext]_vars

InitLimiterSeq == InitWith(1)

SpecLimiterSeq == InitLimiterSeq /\ [][LimNext]_vars

InitBreaker == InitWith(NBrProcs)

SpecBreaker == InitBreaker /\ [][BrNext]_vars

InitBreakerSeq == InitWith(1)

SpecBreakerSeq == InitBreakerSeq /\ [][BrNext]_vars

\* The breaker with overlapping Allow calls only.
InitProbe == InitWith(NBrProcs)

SpecProbe == InitProbe /\ [][ProbeNext]_vars

InitHealth == InitWith(NBrProcs)

SpecHealth == InitHealth /\ [][HealthNext]_vars

InitExecute == InitWith(NBrProcs)

SpecExecute == InitExecute /\ [][ExecNext]_vars

\* The handler with overlapping requests, all within one second: the clock
\* stands still, so every run is a run of the program in which no second
\* passes.
InitHandler == InitWith(NHandlers)

SpecHandler == InitHandler /\ [][PipeSteps]_vars

\* The handler with one request at a time, the clock moving between any two
\* steps.
InitHandlerSeq == InitWith(1)

SpecHandlerSeq == InitHandlerSeq /\ [][PipeNext]_vars

\* The collector with its methods called directly.
InitCollector == InitWith(1)

SpecCollector == InitCollector /\ [][CollectorNext]_vars

----------------------------------------------------------------------------
(* Claims about the coalescer *)

EnrolledIn(g) == {cgroup[g].waiters[i] : i \in 1..Len(cgroup[g].waiters)}
ExecutorsOf(g) == {p \in Callers : cp[p].g = g /\ cp[p].role = "executor"}

\* C1: for every group, fn is invoked exactly once however many callers enroll
\* before it is done: the first caller enrolled is the executor, every other
\* enrolled caller is a waiter, and no second executor ever exists.
C1_ExactlyOneExecutor ==
    \A g \in Gids :
      /\ fnCalls[g] <= 1
      /\ Cardinality(ExecutorsOf(g)) <= 1
      /\ Len(cgroup[g].waiters) >= 1 =>
            /\ fnCalls[g] = 1
            /\ ExecutorsOf(g) = {cgroup[g].waiters[1]}
            /\ \A i \in 2..Len(cgroup[g].waiters) :
                  cp[cgroup[g].waiters[i]].role = "waiter"
      /\ cgroup[g].done => fnCalls[g] = 1

\* C1 witness: three callers enrolled in one group before it was done, and the
\* group is done.
C1_Witness ==
    \E g \in Gids : cgroup[g].done /\ Len(cgroup[g].waiters) >= 3 /\ fnCalls[g] = 1

\* C2 as stated: every caller that enrolled as a waiter before done was set has
\* returned, once the executor is through, exactly the executor's outcome.
C2_WaiterAlwaysGetsOutcome ==
    \A p \in Callers :
      (cp[p].role = "waiter" /\ cp[p].pc = "returned" /\ cgroup[cp[p].g].done) =>
         /\ cp[p].ret.resp = cgroup[cp[p].g].response
         /\ cp[p].ret.err = cgroup[cp[p].g].response.Err

\* C2 amended: a waiter returns either the executor's outcome (the response the
\* executor stored and that response's error, which are what the executor itself
\* returns) or, only once its 60-second wait has elapsed, (nil, CoalesceTimeout).
C2_WaiterOutcomeOrTimeout ==
    [][\A p \in Callers :
         /\ (cp[p].pc = "wait" /\ cp'[p].pc = "returned") =>
              \/ /\ cgroup[cp[p].g].done
                 /\ cp'[p].ret.resp = cgroup[cp[p].g].response
                 /\ cp'[p].ret.err = cgroup[cp[p].g].response.Err
              \/ /\ cp'[p].ret = [resp |-> NilResp, err |-> CoalesceTimeoutError]
                 /\ now >= cp[p].deadline
                 /\ cp[p].deadline >= CoalesceWaitSeconds
         /\ (cp[p].pc = "cleanup" /\ cp'[p].pc = "returned") =>
              /\ cp'[p].ret.resp = cgroup[cp[p].g].response
              /\ cp'[p].ret.err = cgroup[cp[p].g].response.Err
      ]_vars

\* C2 witness: a waiter has returned the executor's error outcome, and the
\* executor has returned too.
C2_Witness ==
    \E p, q \in Callers :
      /\ cp[p].role = "waiter" /\ cp[p].pc = "returned"
      /\ cp[q].role = "executor" /\ cp[q].pc = "returned" /\ cp[q].g = cp[p].g
      /\ cp[p].ret = cp[q].ret
      /\ cp[p].ret.err = UpstreamErr

----------------------------------------------------------------------------
(* Claims about the cache *)

RECURSIVE SumSizes(_, _)
SumSizes(d, ks) ==
    IF ks = {} THEN 0
    ELSE LET k == CHOOSE x \in ks : TRUE IN d[k].size + SumSizes(d, ks \ {k})

\* C3: in every reachable state in which no caller is inside a critical
\* section of c.mu, totalSize is the sum of the sizes of the entries in the map.
C3_TotalSizeIsSum == kmu = 0 => totalSize = SumSizes(data, Present(data))

\* C4: after every Set completes, totalSize <= maxSize.
C4_TotalSizeWithinMax == (kret.op = "set" /\ kmu = 0) => totalSize <= MaxSize

\* What the last call, made with no other call in flight, found and left.
C5_AfterGet ==
    kret.op = "get" =>
      /\ kret.hit <=> (kret.arg # NoEntry /\ kret.at <= kret.arg.setAt + kret.arg.ttl)
      /\ kret.hit =>
            /\ data[kret.key] # NoEntry
            /\ kret.ret = data[kret.key].response
            /\ kret.ret = [kret.arg.arg EXCEPT !.TTL = kret.arg.setAt + kret.arg.ttl]
      /\ ~kret.hit => data[kret.key] = NoEntry /\ kret.ret = NoResponse

C5_AfterSet ==
    kret.op = "set" =>
      /\ data[kret.key] # NoEntry
      /\ data[kret.key].response.Body = kret.arg.Body
      /\ data[kret.key].response.Headers = kret.arg.Headers
      /\ data[kret.key].response.StatusCode = kret.arg.StatusCode
      /\ data[kret.key].arg = kret.arg
      /\ data[kret.key].setAt = kret.at

\* C5, with one call at a time: Get(K) is a hit iff K was present and the clock
\* has not passed set_time + ttl, and then it returns the response Set stored
\* (so Get right after Set(K, R, ttl > 0) returns R); from set_time + ttl + 1 on
\* it is a miss and K is no longer in the map; Set with ttl <= 0 changes
\* nothing; Clear leaves the map empty, so every Get after it misses.
C5_GetIffPresentAndFresh ==
    [][kmu' = 0 =>
         /\ C5_AfterGet'
         /\ C5_AfterSet'
         /\ kret'.op = "setnoop" => (data' = data /\ totalSize' = totalSize)
         /\ kret'.op = "clear" => (Present(data') = {} /\ totalSize' = 0)
      ]_vars

\* C5 witnesses: a Get found an entry one whole second past its deadline and
\* missed; a Get at the deadline itself hit.
C5_Witness ==
    /\ kret.op = "get" /\ ~kret.hit /\ kret.arg # NoEntry
    /\ kret.at >= kret.arg.setAt + kret.arg.ttl + 1

C5_WitnessHit ==
    /\ kret.op = "get" /\ kret.hit
    /\ kret.at = kret.arg.setAt + kret.arg.ttl

----------------------------------------------------------------------------
(* Rate limiter claims *)

\* The callers inside the critical section of shard s.
InCritical(s) ==
    {p \in LimProcs : lp[p].pc \in {"refill", "decide"} /\ shardIdx[lp[p].key] = s}

\* C6: every client state has 0 <= tokens <= burst, in every state and so
\* whenever Allow returns, however the Allow calls on the same or on different
\* keys interleave; and Allow calls of one shard (so of one key) go through
\* lines 52-99 one at a time, the caller inside being the holder of the lock.
C6_TokensWithinBurst ==
    /\ \A k \in Clients : clients[k] # NoState =>
          /\ ~FLess(clients[k].tokens, FZero)
          /\ ~FLess(Burst, clients[k].tokens)
    /\ \A s \in Shards : \A p \in InCritical(s) : InCritical(s) = {p} /\ lmu[s] = p

\* C6 witness: a client that has been admitted before has its bucket back at
\* burst after a refill, while one call on its key is inside the critical
\* section and another call on the same key waits for the lock.
C6_Witness ==
    \E p, q \in LimProcs :
       /\ p # q
       /\ lp[p].pc = "decide" /\ lp[q].pc = "lock" /\ lp[p].key = lp[q].key
       /\ clients[lp[p].key].window # <<>>
       /\ clients[lp[p].key].lastRefill > 0
       /\ clients[lp[p].key].tokens = Burst

\* The highest rate client k is configured for, over the routes it uses.
ClientRate(k) == CHOOSE r \in {RateFor(c) : c \in RouteRates(k)} :
                    \A c \in RouteRates(k) : RateFor(c) <= r

\* The admissions in k's sliding window that fall in [from, from + 60).
AdmittedIn(k, from) ==
    Cardinality({i \in DOMAIN clients[k].window :
                    /\ from <= clients[k].window[i]
                    /\ clients[k].window[i] < from + WindowSeconds})

\* C7: for every client key, the admissions of that key within any 60 seconds
\* number at most burst + rate + 1 (rate: the rate the client's requests are
\* configured for), whatever the other clients of its shard do.
C7_AdmittedWithinBurstPlusRate ==
    \A k \in Clients : clients[k] # NoState =>
       \A i \in DOMAIN clients[k].window :
          AdmittedIn(k, clients[k].window[i]) <= BurstSize + ClientRate(k) + 1

\* A call of Allow returns denied in this step.
DenyReturns(p) == lp[p].pc = "decide" /\ lp'[p].pc = "idle" /\ ~lret'.allowed

\* tok + n / 60 >= 1 in exact arithmetic, for a float64 tok below 1: n
\* sixtieths of a token make up for the deficit.
CoversDeficit(tok, n) ==
    IF tok = FZero THEN n >= Sixty
    ELSE ~BigLess(BigAdd(BigMul(tok.m, Sixty), ShiftLeft(BigOf(n), 0 - tok.e)),
                  ShiftLeft(BigOf(Sixty), 0 - tok.e))

\* w is the refill time of the deficit in whole seconds, rounded up.
IsSecondsUntilResetUp(w, tok, rate) ==
    /\ w >= 1
    /\ CoversDeficit(tok, w * rate)
    /\ ~CoversDeficit(tok, (w - 1) * rate)

\* C18: a denied admission returns (false, 0, now + wait) with wait the
\* deficit's refill time in seconds rounded up, so the reset time returned is
\* strictly later than the call's now (and a Retry-After taken from it is at
\* least 1).
C18_DeniedResetAfterNow ==
    [][\A p \in LimProcs : DenyReturns(p) =>
          LET k == lp[p].key IN
          /\ lret'.remaining = 0
          /\ IsSecondsUntilResetUp(lret'.resetTime - lp[p].t, clients[k].tokens,
                                   refillRate[shardIdx[k]])
          /\ lret'.resetTime > lp[p].t]_vars

\* The admission of process p refills its client's bucket in this step.
RefillApplied(p) ==
    /\ lp[p].pc = "refill" /\ lp'[p].pc = "decide"
    /\ lp[p].t > clients[lp[p].key].lastRefill

\* C20: the refill of an admission uses the rate of its own call, customRate
\* when that is positive and the default rate otherwise, whatever rates other
\* clients of the shard or earlier calls have passed.
C20_RefillAtOwnRate ==
    [][\A p \in LimProcs : RefillApplied(p) =>
          LET k == lp[p].key IN
          clients'[k].tokens =
             Refill(clients[k].tokens, RateFor(lp[p].customRate),
                    lp[p].t - clients[k].lastRefill)]_vars

----------------------------------------------------------------------------
(* Circuit breaker claims *)

\* The breaker's own fields.
brShared == <<state, failureCount, successCount, lastFailureTime, healthScore>>

\* A call of RecordFailure returns in this step.
FailReturns ==
    \E p \in BrProcs : bp[p].pc \in {"f_store", "f_open"} /\ bp'[p].pc = "idle"

\* C8, with one call at a time: when RecordFailure returns and it is at least
\* the failureThreshold-th failure recorded in a row, the state is Open; and
\* the breaker goes from Closed to Open only with
\* failureCount >= failureThreshold.
C8_OpenAtFailureThreshold ==
    [][/\ (FailReturns /\ consec >= FailureThreshold) => state' = StateOpen
       /\ (state = StateClosed /\ state' = StateOpen) =>
             failureCount' >= FailureThreshold
      ]_vars

\* C8 witness: the breaker, Closed with no failure counted, has just been
\* opened by the return of the failureThreshold-th failure in a row.
C8_Witness ==
    /\ bret.op = "RecordFailure" /\ bret.st = StateClosed
    /\ InFlightBr = {}
    /\ consec = FailureThreshold /\ failureCount = FailureThreshold
    /\ state = StateOpen

\* A call of Allow returns in this step: at once, in Closed and in HalfOpen,
\* or, for caller p, after the clock has been read in Open.
AllowReturnsAtOnce == bret'.op = "Allow" /\ bp' = bp /\ brOps' = brOps + 1
AllowReturns(p) ==
    /\ bret'.op = "Allow"
    /\ bp[p].pc \in {"a_load", "a_cas", "a_zero"} /\ bp'[p].pc = "idle"

\* C9, with one call at a time: Allow returns true in Closed and in HalfOpen
\* and leaves the breaker as it is; called in Open it returns false and
\* changes nothing while now, the second it reads from the clock, is below
\* lastFailureTime + openTimeout, and from that instant on it returns true,
\* leaving the state HalfOpen and successCount 0.
C9_AllowByState ==
    [][/\ AllowReturnsAtOnce =>
            bret'.st \in {StateClosed, StateHalfOpen} /\ bret'.ok /\ brShared' = brShared
       /\ \A p \in BrProcs : AllowReturns(p) =>
            /\ bret'.st = StateOpen
            /\ bp[p].t < lastFailureTime + OpenTimeout =>
                  ~bret'.ok /\ brShared' = brShared
            /\ bp[p].t >= lastFailureTime + OpenTimeout =>
                  bret'.ok /\ state' = StateHalfOpen /\ successCount' = 0
       /\ (\E p \in BrProcs : {"a_time", "a_load"} \cap {bp[p].pc, bp'[p].pc} # {}) =>
            brShared' = brShared
      ]_vars

\* C9 witnesses: an Allow called in Open at or after the timeout has returned
\* true and left the breaker HalfOpen; an Allow before the timeout returned
\* false.
C9_Witness ==
    /\ bret = [op |-> "Allow", ok |-> TRUE, st |-> StateOpen]
    /\ InFlightBr = {}
    /\ state = StateHalfOpen /\ successCount = 0
    /\ now >= lastFailureTime + OpenTimeout

C9_WitnessDenied ==
    /\ bret = [op |-> "Allow", ok |-> FALSE, st |-> StateOpen]
    /\ InFlightBr = {}
    /\ state = StateOpen /\ now < lastFailureTime + OpenTimeout

\* C10: under every interleaving of Allow, RecordSuccess and RecordFailure the
\* breaker goes from HalfOpen to Closed only when successThreshold successes
\* have been recorded since it became HalfOpen.
C10_ClosedAfterThresholdSuccesses ==
    [][(state = StateHalfOpen /\ state' = StateClosed) =>
          hsince >= SuccessThreshold]_vars

----------------------------------------------------------------------------
(* Claims about Breaker.Execute *)

\* C11: Execute invokes the operation only when Allow returned true.  When
\* Allow returned false it returns the breaker-open error, the operation is
\* not invoked and Allow is the only method of the breaker it has called;
\* otherwise it returns the operation's own error after calling exactly one
\* of RecordFailure (the operation returned an error) and RecordSuccess.
C11_ExecuteGuardedByAllow ==
    xret.op = "Execute" =>
       /\ xret.called <=> xret.allowed
       /\ ~xret.allowed =>
             xret.err = BreakerOpenErr /\ xret.calls = <<"Allow">>
       /\ xret.allowed =>
             /\ xret.err = xret.fnErr
             /\ xret.calls = <<"Allow", IF xret.fnErr # NilErr THEN "RecordFailure"
                                                              ELSE "RecordSuccess">>

\* C11 witness: with the breaker Open, an Execute has just been refused.
C11_Witness ==
    /\ xret.op = "Execute" /\ ~xret.allowed /\ xret.err = BreakerOpenErr
    /\ state = StateOpen /\ bret = [op |-> "Allow", ok |-> FALSE, st |-> StateOpen]

\* C11 witness: an Execute whose operation failed has recorded the failure
\* that opened the breaker.
C11_WitnessFailure ==
    /\ xret.op = "Execute" /\ xret.allowed /\ xret.err = UpstreamErr
    /\ state = StateOpen /\ bret.op = "RecordFailure"

----------------------------------------------------------------------------
(* Claims about a failing fn *)

\* C12: once fn has panicked in the executor of a group, that group is done
\* and holds an error for its waiters, so that no caller stays or becomes a
\* waiter of a group nobody will complete.
C12_PanicSurfacedToGroup ==
    \A p \in Callers : cp[p].pc = "panicked" =>
       /\ cgroup[cp[p].g].done
       /\ cgroup[cp[p].g].response # NilResp
       /\ cgroup[cp[p].g].response.Err # NilErr

\* The same seen from a waiter: no other caller of a group whose executor
\* panicked is left waiting on it.
C12_NoWaiterOnPoisonedGroup ==
    \A p, q \in Callers :
       (cp[p].pc = "panicked" /\ q # p /\ cp[q].g = cp[p].g) =>
          cp[q].pc \notin {"select", "wait"}

----------------------------------------------------------------------------
(* Claims about the cache's capacity *)

\* C16: after every Set the map holds at most capacity entries, unless the
\* entry just inserted is by itself larger than maxSize.
C16_EntriesWithinCapacity ==
    (kret.op = "set" /\ kmu = 0) =>
       \/ Cardinality(Present(data)) <= Capacity
       \/ data[kret.key] # NoEntry /\ data[kret.key].size > MaxSize

----------------------------------------------------------------------------
(* Claims about the health score *)

\* A health update stores its score in this step.
HealthStored(p) ==
    /\ bp[p].pc \in {"ts_health", "tf_health", "tt_health", "s_health", "f_health"}
    /\ bp'[p].pc # bp[p].pc

\* The delta of the update caller p is in.
DeltaOf(p) ==
    CASE bp[p].pc \in {"ts_health", "s_health"} -> SuccessDelta
      [] bp[p].pc \in {"tf_health", "f_health"} -> FailureDelta
      [] bp[p].pc = "tt_health" -> TimeoutDelta

\* alpha * score + (1 - alpha) * delta, in hundredths.
Average100(score, delta) == HealthDecayPct * score + (100 - HealthDecayPct) * delta

\* C17: the health score is an integer in [0, 100] in every state, 100 at the
\* start; every update stores alpha*score + (1-alpha)*delta for the score it
\* read, cut to [0, 100] and to an integer, also while other updates are
\* under way.
C17_HealthScoreWithinRange ==
    /\ healthScore = 100
    /\ [][/\ healthScore' \in 0..100
          /\ \A p \in BrProcs : HealthStored(p) =>
                LET a == Average100(bp[p].v, DeltaOf(p)) IN
                /\ a <= 0 => healthScore' = 0
                /\ a >= 100 * 100 => healthScore' = 100
                /\ (a > 0 /\ a < 100 * 100) =>
                      (100 * healthScore' <= a /\ a < 100 * (healthScore' + 1))
         ]_vars

\* C17 witness: the score has been cut at 0 while another update, which read
\* an earlier score, has yet to store its own.
C17_Witness ==
    /\ healthScore = 0
    /\ \E p \in BrProcs : bp[p].pc \in {"ts_health", "tf_health", "tt_health"}
                            /\ bp[p].v > 0

----------------------------------------------------------------------------
(* Handler claims *)

\* The components behind the cache, and the upstream.
behindCache == <<coalVars, brVars, execVars, upCalls>>

\* The cache key of handler h's request.
KeyOf(h) == Hash(rq[h].Method, rq[h].Path, "")

\* The request of handler h is a GET on a route with enable_cache while the
\* cache is enabled.
EligibleFor(h) ==
    /\ rq[h].Method = "GET"
    /\ rq[h].route.EnableCache
    /\ Snapshots[pcfg].CacheEnabled

\* The request of handler h is such a GET, and the cache holds an entry for its
\* key that had not expired at the second the request arrived.
ArrivedBeforeExpiry(h) ==
    /\ EligibleFor(h)
    /\ data[KeyOf(h)] # NoEntry
    /\ data[KeyOf(h)].response.TTL >= rq[h].start

\* The Get of handler h compares its entry's deadline with the clock in this
\* step (cache.go line 55), and the deadline has not passed.
TestedBeforeExpiry(h) ==
    LET p == rq[h].cache IN
    /\ rq[h].pc = "get"
    /\ kp[p].pc = "check" /\ kp'[p].pc # "check"
    /\ kp[p].e.response.TTL >= now

\* The Get of handler h, past its test of the deadline, takes a step.
PastTheTest(h) ==
    LET p == rq[h].cache IN
    /\ rq[h].pc = "get"
    /\ kp[p].pc \in {"touch", "store"} /\ kp'[p] # kp[p]

\* C13 as stated, with one request at a time: a GET on a cache-eligible route
\* that has passed the rate limiter and arrived (line 57) before the entry of
\* its key expired goes through the cache stage to a cache hit, and nothing
\* changes in the coalescer, the breaker or the count of upstream calls.
C13_ArrivedBeforeExpiryIsServed ==
    [][\A h \in Handlers :
         (/\ rq[h].pc \in {"cache", "getcall", "get"}
          /\ rq'[h] # rq[h]
          /\ ArrivedBeforeExpiry(h)) =>
            /\ rq'[h].pc \in {"getcall", "get", "record"}
            /\ rq'[h].pc = "record" => rq'[h].fromCache
            /\ UNCHANGED behindCache]_vars

\* C13, with one request at a time: a GET on a cache-eligible route that has
\* passed the rate limiter while the cache is enabled is looked up in the
\* cache; when the cache holds an entry for its method, path and query (a 200
\* response stored earlier) whose deadline has not passed at the second Get
\* compares it with the clock, the request is answered with the stored status
\* as a cache hit, whatever the clock does before and after; and from the
\* lookup to the handler's return nothing changes in the coalescer, the
\* breaker or the count of upstream calls.
C13_CachedGetServedFromCache ==
    [][\A h \in Handlers :
         /\ (rq[h].pc = "cache" /\ rq'[h] # rq[h] /\ EligibleFor(h)) =>
               /\ rq'[h].pc = "getcall"
               /\ UNCHANGED behindCache
         /\ (rq[h].pc = "getcall" /\ rq'[h] # rq[h] /\ data[KeyOf(h)] # NoEntry) =>
               /\ rq'[h].pc = "get"
               /\ kp'[rq'[h].cache].e.response = data[KeyOf(h)].response
               /\ UNCHANGED behindCache
         /\ TestedBeforeExpiry(h) =>
               /\ kp'[rq[h].cache].pc = "touch"
               /\ rq'[h] = rq[h]
               /\ UNCHANGED behindCache
         /\ PastTheTest(h) =>
               /\ rq'[h] # rq[h] =>
                     /\ rq'[h].pc = "record"
                     /\ rq'[h].fromCache
                     /\ rq'[h].status = 200
                     /\ rq'[h].calls \in {<<"Get">>, <<"Allow", "Get">>}
               /\ UNCHANGED behindCache
         /\ (rq[h].pc = "record" /\ rq'[h] # rq[h] /\ rq[h].fromCache) =>
               /\ hret'.status = 200 /\ hret'.fromCache
               /\ metrics'.cacheHits = metrics.cacheHits + 1
               /\ UNCHANGED behindCache]_vars

\* C13 witness: two requests have been served, the second from the cache a
\* minute or more after the first was stored, and the upstream was called
\* once.
C13_Witness ==
    /\ served = 2
    /\ metrics.totalRequests = 2
    /\ hret.fromCache /\ hret.status = 200
    /\ metrics.cacheHits = 1
    /\ upCalls = 1
    /\ kret.op = "get" /\ kret.hit
    /\ kret.at >= WindowSeconds
    /\ now > kret.arg.response.TTL

\* Limiter.Allow returns denied to handler h in this step.
DeniedTo(h) ==
    /\ rq[h].pc = "allow"
    /\ lp[rq[h].lim].pc # "idle" /\ lp'[rq[h].lim].pc = "idle"
    /\ ~lret'.allowed

\* C14: when the limiter denies a request the handler goes on to write the
\* 429 and returns; the request has called nothing but the limiter, the
\* denial changes nothing outside the limiter, and writing the 429 changes
\* the rate-limit counter by one and nothing else in the cache, the
\* coalescer, the breaker, the limiter, the other counters or the upstream.
C14_DeniedStopsAt429 ==
    [][\A h \in Handlers :
         /\ DeniedTo(h) =>
               /\ rq'[h].pc = "reject"
               /\ rq'[h].calls = <<"Allow">>
               /\ UNCHANGED <<coalVars, cacheVars, brVars, execVars, metrics,
                              upCalls, hret, gcfg, pcfg>>
         /\ (rq[h].pc = "reject" /\ rq'[h] # rq[h]) =>
               /\ rq'[h] = IdleReq
               /\ hret'.status = 429
               /\ hret'.calls = <<"Allow">>
               /\ metrics' = [metrics EXCEPT !.rateLimitHits = @ + 1]
               /\ UNCHANGED <<coalVars, cacheVars, limVars, brVars, execVars,
                              upCalls, gcfg, pcfg>>]_vars

\* C14 witness: a request has been answered 429.
C14_Witness ==
    /\ hret.status = 429
    /\ metrics.rateLimitHits = 1
    /\ metrics.totalRequests = 1

\* C15: the snapshot fields a request has consulted (route table, rate-limit
\* flag, cache flag and TTL, breaker flag) all come from one snapshot.
C15_OneSnapshotPerRequest ==
    \A h \in Handlers : Cardinality(rq[h].seen) <= 1

\* C19: an upstream call that is still unanswered when more than the route's
\* timeout has passed since it started does not come back as a success: it
\* ends as an error of forwardRequest.
C19_UpstreamBoundedByRouteTimeout ==
    [][\A h \in Handlers :
         (/\ rq[h].pc = "upstream" /\ rq'[h].pc # "upstream"
          /\ now > rq[h].upStart + rq[h].route.Timeout)
            => rq'[h].err # NilErr]_vars

----------------------------------------------------------------------------
(* Claims about the breaker's transitions *)

\* A call of RecordFailure made while the breaker was HalfOpen returns in this
\* step.
ProbeFailureReturns(p) ==
    /\ bp[p].pc \in {"f_store", "f_open"} /\ bp'[p].pc = "idle"
    /\ bp[p].st = StateHalfOpen

\* C21: a RecordFailure called while the breaker is HalfOpen leaves the state
\* Open when it returns, under every interleaving with other calls of Allow,
\* RecordSuccess and RecordFailure.
C21_FailureInHalfOpenOpens ==
    [][\A p \in BrProcs : ProbeFailureReturns(p) => state' = StateOpen]_vars

\* C22, with one call at a time: failureCount and successCount go down only
\* to 0, successCount in the Allow that has just taken the breaker from Open
\* to HalfOpen and failureCount in the RecordSuccess that has just taken it
\* from HalfOpen to Closed; every other step leaves them as they are or
\* raises them.
C22_CountersResetOnlyOnTransition ==
    [][/\ successCount' < successCount =>
             /\ successCount' = 0 /\ state = StateHalfOpen
             /\ \E p \in BrProcs : bp[p].pc = "a_zero"
       /\ failureCount' < failureCount =>
             /\ failureCount' = 0 /\ state = StateClosed
             /\ \E p \in BrProcs : bp[p].pc = "s_reset"
       /\ \A p \in BrProcs :
             (bp'[p].pc = "a_zero" /\ bp[p].pc # "a_zero") =>
                state = StateOpen /\ state' = StateHalfOpen
       /\ \A p \in BrProcs :
             (bp'[p].pc = "s_reset" /\ bp[p].pc # "s_reset") =>
                state = StateHalfOpen /\ state' = StateClosed
      ]_vars

\* C22 witness: the breaker has gone Closed -> Open -> HalfOpen -> Closed; the
\* last RecordSuccess closed it and reset failureCount, after the Allow that
\* half-opened it had reset successCount.
C22_Witness ==
    /\ bret = [op |-> "RecordSuccess", ok |-> TRUE, st |-> StateHalfOpen]
    /\ InFlightBr = {}
    /\ state = StateClosed /\ failureCount = 0
    /\ successCount = SuccessThreshold /\ hsince = SuccessThreshold

\* A call of Allow that found the breaker Open with the timeout elapsed
\* returns in this step.
ProbeAllowReturns(p) == bp[p].pc \in {"a_cas", "a_zero"} /\ bp'[p].pc = "idle"

\* C23: when Allow calls overlap while the breaker is Open and the timeout has
\* elapsed, one compare-and-swap takes the breaker to HalfOpen and no second
\* one does; every one of those calls returns true, with the breaker HalfOpen.
C23_OneSwapAllAllowed ==
    [][/\ swaps' <= 1
       /\ \A p \in BrProcs :
             ProbeAllowReturns(p) =>
                /\ bret'.op = "Allow" /\ bret'.ok
                /\ swaps' = 1 /\ state' = StateHalfOpen
      ]_vars

\* C23 witness: two Allow calls passed the timeout check together; the one
\* that lost the swap has returned true while the winner has yet to reset
\* successCount.
C23_Witness ==
    /\ \E p \in BrProcs : bp[p].pc = "a_zero"
    /\ bret = [op |-> "Allow", ok |-> TRUE, st |-> StateOpen]
    /\ swaps = 1 /\ state = StateHalfOpen

----------------------------------------------------------------------------
(* Claims about late callers of the coalescer *)

\* The group ids held by the map or by a call.
KnownGroups == {groups[k] : k \in CoalKeys} \cup {cp[q].g : q \in Callers}

\* C24: a Do(K, fn) that arrives while the map holds a group for K joins that
\* group, and when it finds the group done it returns the stored response and
\* that response's error, with fn not invoked and the group untouched.  A Do
\* that arrives when K has no group (none yet, or reaped by the TTL timer)
\* stores a fresh group, and the first caller to lock a fresh group invokes fn.
C24_LateCallerGetsStoredResult ==
    [][\A p \in Callers :
         /\ (cp[p].pc = "idle" /\ cp'[p].pc = "lock") =>
               IF groups[cp'[p].key] # NoGroup
               THEN cp'[p].g = groups[cp'[p].key] /\ groups' = groups
               ELSE /\ cp'[p].g \notin KnownGroups
                    /\ groups'[cp'[p].key] = cp'[p].g
                    /\ cgroup[cp'[p].g] = NewGroup
                    /\ fnCalls[cp'[p].g] = 0
         /\ (cp[p].pc = "lock" /\ cp'[p] # cp[p]) =>
               IF cgroup[cp[p].g].done
               THEN /\ cp'[p].pc = "returned"
                    /\ cp'[p].ret.resp = cgroup[cp[p].g].response
                    /\ cp'[p].ret.err = cgroup[cp[p].g].response.Err
                    /\ fnCalls' = fnCalls /\ cgroup' = cgroup
               ELSE Len(cgroup[cp[p].g].waiters) = 0 =>
                       /\ cp'[p].pc = "infn"
                       /\ fnCalls'[cp[p].g] = fnCalls[cp[p].g] + 1
      ]_vars

\* C24 witness: on one key, a caller that arrived after the group was done has
\* returned what the executor returned, an error outcome; after the TTL timer
\* removed the group a third caller formed a second group and invoked fn.
C24_Witness ==
    \E p, q, r \in Callers :
      /\ cp[p].role = "executor" /\ cp[p].pc = "returned"
      /\ cp[q].role = "late" /\ cp[q].pc = "returned" /\ cp[q].g = cp[p].g
      /\ cp[q].ret = cp[p].ret /\ cp[q].ret.err = UpstreamErr
      /\ fnCalls[cp[p].g] = 1
      /\ cp[r].role = "executor" /\ cp[r].key = cp[p].key /\ cp[r].g # cp[p].g
      /\ fnCalls[cp[r].g] = 1

----------------------------------------------------------------------------
(* Claims about the termination of Coalescer.Do *)

\* A waiter takes a step.
WaiterSteps(p) == cp[p].role = "waiter" /\ cp'[p] # cp[p]

\* A call is at a point of Do other than fn; it is inside fn or it has returned.
OnItsOwn(p) == cp[p].pc \in {"lock", "notify", "cleanup", "select", "wait"}
FnOrReturned(p) == cp[p].pc \in {"infn", "returned"}

\* C25: every Do call returns in the end.  The executor returns once fn has
\* returned: the broadcast and the scheduling of the clean-up go through, also
\* when a waiter has left on its timeout.  A caller that has locked the group
\* gets through the critical section, and a waiter returns, either what was
\* delivered to its channel or, once 60 seconds have passed since its select,
\* CoalesceTimeout; no step of a waiter invokes fn or starts the call again.
C25_EveryDoReturns ==
    /\ \A p \in Callers : OnItsOwn(p) ~> FnOrReturned(p)
    /\ [][\A p \in Callers :
            WaiterSteps(p) =>
               /\ fnCalls' = fnCalls
               /\ cp'[p].role = "waiter" /\ cp'[p].g = cp[p].g
               /\ \/ cp[p].pc = "select" /\ cp'[p].pc = "wait"
                  \/ /\ cp[p].pc = "wait" /\ cp'[p].pc = "returned"
                     /\ \/ /\ chans[p] # EmptyChan
                           /\ cp'[p].ret = [resp |-> chans[p], err |-> chans[p].Err]
                        \/ /\ now >= cp[p].deadline
                           /\ cp'[p].ret = [resp |-> NilResp,
                                            err |-> CoalesceTimeoutError]
         ]_vars

\* C25 witness: a waiter has returned CoalesceTimeout, and the executor of its
\* group, whose fn returned afterwards, has delivered the response into the
\* waiter's channel and returned.
C25_Witness ==
    \E p, q \in Callers :
      /\ cp[p].role = "executor" /\ cp[p].pc = "returned"
      /\ cp[q].role = "waiter" /\ cp[q].pc = "returned" /\ cp[q].g = cp[p].g
      /\ cp[q].ret = [resp |-> NilResp, err |-> CoalesceTimeoutError]
      /\ chans[q] # EmptyChan

----------------------------------------------------------------------------
(* Claims about the cache's eviction order *)

\* The Set of caller p stores its entry and returns in this step; a Get
\* returns a hit in it.
SetCompletes(p) == kp[p].pc \in {"setlock", "scan1", "scan2"} /\ kp'[p].pc = "idle"
GetHits == kret'.hit /\ \E p \in CacheProcs : kp[p].pc = "store" /\ kp'[p].pc = "idle"

\* The map and totalSize the Set of caller p found when it took the lock.
SetFound(p) ==
    IF kp[p].pc = "setlock" THEN [data |-> data, totalSize |-> totalSize]
    ELSE kp[p].was

\* The keys a Set has evicted from the map d, and the other keys, which it
\* left alone.
EvictedBySet(d) == Present(d) \ Present(data')
KeptBySet(d) == (Present(d) \cap Present(data')) \ {kret'.key}

\* The size of the entry the key of the Set had before.
ReplacedSize(d) == IF d[kret'.key] # NoEntry THEN d[kret'.key].size ELSE 0

\* What the evictions of a Set may have taken off totalSize for the entry the
\* Set replaces: nothing, or its size when it was the least recently used.
ReplacedEvicted(d) ==
    {0} \cup {ReplacedSize(d) : k \in {j \in {kret'.key} :
                  /\ d[j] # NoEntry
                  /\ \A i \in KeptBySet(d) : d[j].lastUsed < d[i].lastUsed}}

\* C26, with one call at a time: every entry a Set evicts was less recently
\* used than every entry it leaves in the map, and totalSize goes down by the
\* size of each evicted entry (by that of the replaced entry too, when the
\* eviction took it); a Get that hits makes its entry the most recently used
\* one and changes nothing else.
C26_EvictsLeastRecentlyUsed ==
    [][/\ \A p \in CacheProcs : SetCompletes(p) =>
            LET d == SetFound(p).data IN
            /\ \A j \in EvictedBySet(d) : \A i \in KeptBySet(d) :
                  d[j].lastUsed < d[i].lastUsed
            /\ \A i \in KeptBySet(d) : data'[i] = d[i]
            /\ \E x \in ReplacedEvicted(d) :
                  totalSize' = SetFound(p).totalSize - ReplacedSize(d) - x
                               - SumSizes(d, EvictedBySet(d))
                               + data'[kret'.key].size
       /\ GetHits =>
            /\ \A i \in Present(data') \ {kret'.key} :
                  /\ data'[i] = data[i]
                  /\ data'[kret'.key].lastUsed > data[i].lastUsed
            /\ data'[kret'.key].lastUsed > data[kret'.key].lastUsed
            /\ data'[kret'.key] = [data[kret'.key] EXCEPT
                                     !.lastUsed = data'[kret'.key].lastUsed]
            /\ totalSize' = totalSize
      ]_vars

\* C26 witness: two entries were stored, the older of them was read, and the
\* Set of a third key, too large to fit, has evicted the one stored later and
\* kept the one that was read.
C26_Witness ==
    \E a, b, c \in CacheKeys :
      /\ a # b /\ b # c /\ a # c
      /\ kret.op = "set" /\ kret.key = c
      /\ data[a] # NoEntry /\ data[b] = NoEntry /\ data[c] # NoEntry
      /\ data[a].size + data[c].size > MaxSize
      /\ nextEid = 3 /\ nano = 5
      /\ data[a].lastUsed = 3 /\ data[c].lastUsed = 4

----------------------------------------------------------------------------
(* Claims about expired entries *)

\* A Get that found its entry expired removes it in this step.
RemovesExpired(p) == kp[p].pc = "expire" /\ kp'[p].pc = "idle"

\* C28: when a Get removes the entry it found expired, the map still holds
\* an entry under the key (no other Get has removed it and taken its size
\* off already), the entry the map holds is an expired one (not a fresher
\* one a Set has stored meanwhile), and totalSize goes down by the size of
\* the entry that leaves the map, whatever other Gets and Sets of the key do
\* meanwhile.
C28_ExpiredEntryRemovedOnce ==
    [][\A p \in CacheProcs :
         RemovesExpired(p) =>
            /\ data[kp[p].key] # NoEntry
            /\ Expired(data[kp[p].key], now)
            /\ totalSize' = totalSize - data[kp[p].key].size
      ]_vars

----------------------------------------------------------------------------
(* Claims about the classification of timeouts *)

\* The Execute of caller p, whose operation failed because the client's
\* timeout ran out, stores the health score in this step.
TimeoutRecorded(p) ==
    /\ xp[p].pc = "x_recording"
    /\ xp[p].err = ClientTimeoutErr
    /\ HealthStored(p)

\* C27: when the upstream call of an Execute failed because its timeout ran
\* out, the health score stored for it is the one of a timeout (delta -50),
\* computed from the score the update read.
C27_TimeoutRecordedAsTimeout ==
    [][\A p \in BrProcs :
         TimeoutRecorded(p) => healthScore' = updateHealth(bp[p].v, TimeoutDelta)
      ]_vars

====
